---- MODULE Spec2Model ----
(***************************************************************************)
(* Project lifecycle of the video-editing workflow backend.                *)
(*                                                                         *)
(* One Project document lives in the store (db) next to the collection of  *)
(* editor accounts (users).  Every request handler is an async function:   *)
(* it reads the document (find), changes its in-memory Mongoose copy, and  *)
(* writes the changes back with save().  save() sends only the delta of    *)
(* the in-memory copy: $set for the scalar paths that were modified and    *)
(* $push for the elements pushed onto arrays.  The handler's steps are the *)
(* stretches of code between two awaits.                                   *)
(*                                                                         *)
(* A request arrives (its handler runs to its first await and parks in a   *)
(* slot) and is resumed one step at a time; the steps of the requests in   *)
(* flight interleave in every order.  Two requests are in flight at most.  *)
(*                                                                         *)
(* Spec     takes the requests of the admin, the editors and the client on *)
(*          a project that is new, assigned, completed or approved.        *)
(* SpecOverlap is Spec with the lifecycle transitions and the requests of  *)
(*          their neighbourhood only.                                      *)
(* SpecDeadline lets the clock (now, in hours) advance at any time and     *)
(*          calls checkEditorDeadline.                                     *)
(* SpecCheck is SpecDeadline around one call of checkEditorDeadline.       *)
(* SpecLatch starts from the project whose deadline latch is set.          *)
(* SpecTimeline takes every handler that writes the timeline, the creation *)
(*          of the project included.                                       *)
(* SpecFail lets the database reject one save() of a request and the       *)
(*          notifier throw.                                                *)
(* SpecMethods applies the schema's methods to documents.                  *)
(* SpecCreate starts without the project and creates it.                   *)
(* SpecLoop starts from a project whose revision was requested.            *)
(* SpecRead adds the client's read views to the requests.                  *)
(* SpecKeepAlive calls start() and stop() of KeepAliveService.             *)
(***************************************************************************)
EXTENDS Integers, Sequences, FiniteSets, TLC

VARIABLES db, users, last, slot, nops, now, keepAlive, strictPopulate

vars == <<db, users, last, slot, nops, now, keepAlive, strictPopulate>>

(***************************************************************************)
(* Bounds of the model.                                                    *)
(***************************************************************************)
\* requests that arrive in a behaviour of Spec or SpecRead
MaxOps == 2
\* requests that arrive in a behaviour of SpecOverlap, SpecDeadline, SpecLatch,
\* SpecTimeline, SpecFail, SpecLoop or SpecMethods
MaxConc == 2
\* the longest editedVersions array SpecMethods starts from
MaxLen == 3
\* the hours the clock of SpecDeadline and SpecCheck runs
MaxNow == 2

(***************************************************************************)
(* Values.                                                                 *)
(***************************************************************************)
Null == "null"
Admin == "admin"
Editors == {"e1", "e2"}
EditorName(e) == IF e = "e1" THEN "Asha" ELSE IF e = "e2" THEN "Ravi" ELSE Null

\* projectSchema.status enum
Statuses ==
    {"uploaded", "assigned", "reassigned", "in_progress", "completed",
     "under_review", "approved", "revision_requested", "revision_in_progress",
     "client_reedit", "delivered"}

\* A body field meant as a boolean, as express.json() or express.urlencoded()
\* hands it over: missing, a boolean, a number, or a string.  "'false'" is
\* the string 'false', "false" the boolean.  These are the values that
\* body(...).optional().isBoolean() lets through.
JsFlags == {"undefined", "false", "true", "0", "1",
            "'false'", "'true'", "'0'", "'1'"}
\* JavaScript truthiness of such a field: undefined, false and the number 0
\* are falsy, every non-empty string is truthy
Truthy(v) == v \notin {"undefined", "false", "0"}
\* what a Boolean path of the schema stores for such a field (Mongoose's cast)
CastBoolean(v) ==
    IF v = "undefined" THEN "undefined"
    ELSE IF v \in {"true", "1", "'true'", "'1'"} THEN "true" ELSE "false"
\* the values of such a field that the requests below carry
FlagInputs == {"undefined", "false", "true", "'false'"}

\* a Date path: NoDate when it is not set, Date(t) for the time t (in hours)
NoDate == <<>>
Date(t) == <<t>>
Time(d) == d[1]

\* editorDeadlineHours: { default: 24 }
DefaultDeadlineHours == 24

\* the array paths of the document, with nothing pushed
NoPush == [editedVersions |-> <<>>, clientFeedback |-> <<>>,
           adminComments |-> <<>>, timeline |-> <<>>]

\* the adobeVideoLink path of a project no editor has given a link for
NoLink == [url |-> "none", addedBy |-> Null]

\* The project as persisted by a successful uploadEnhanced of an existing
\* client (uploadEnhanced is the one handler that creates a project).
NewProject ==
    [status |-> "uploaded",
     assignedEditor |-> Null,
     progress |-> 0,
     assignedDate |-> NoDate,
     editorDeadlineHours |-> DefaultDeadlineHours,
     editorDeadline |-> NoDate,
     isEditorDeadlineExceeded |-> FALSE,
     adobeVideoLink |-> NoLink,
     editedVersions |-> <<>>,
     clientFeedback |-> <<>>,
     adminComments |-> <<>>,
     timeline |-> << [action |-> <<"Existing client project created">>,
                      user |-> Null] >>]

(***************************************************************************)
(* The Mongoose document held by a handler: doc is the in-memory copy,     *)
(* dirty the modified scalar paths, pushed the array elements not yet      *)
(* saved.  pc is the await the handler is parked at.                       *)
(* The other fields are kept for the properties: before and usersBefore    *)
(* are the persisted project and the accounts when the request arrived, at *)
(* the time the handler read the clock (the time of its arrival when it    *)
(* does not read it later), fail and mail what the database and the        *)
(* notifier do to it, writes the number of its steps that changed the      *)
(* persisted project, pre the persisted project just before the first of   *)
(* these steps and post the persisted project just after the last one      *)
(* (both are the project at the arrival while the request has not written).*)
(***************************************************************************)
IdleSlot ==
    [pc |-> "idle", args |-> [op |-> "none"], doc |-> NewProject,
     dirty |-> {}, pushed |-> NoPush, result |-> "none", prev |-> Null,
     reassign |-> FALSE, nvn |-> 0, saves |-> 0, log |-> <<>>,
     before |-> NewProject, usersBefore |-> {}, at |-> 0, fail |-> 0,
     mail |-> TRUE, writes |-> 0, pre |-> NewProject, post |-> NewProject]

\* doc.path = v : the path is marked modified only when the value changes
SetPath(l, path, v) ==
    IF l.doc[path] = v THEN l
    ELSE [l EXCEPT !.doc[path] = v, !.dirty = @ \cup {path}]

\* doc.path = v where v is a new Date() or the path holds a populated
\* document: the path is marked modified whatever it held
AssignPath(l, path, v) ==
    [l EXCEPT !.doc[path] = v, !.dirty = @ \cup {path}]

\* doc.path.push(e)
PushPath(l, path, e) ==
    [l EXCEPT !.doc[path] = Append(@, e), !.pushed[path] = Append(@, e)]

\* projectSchema.methods.addTimelineEntry, up to its save()
addTimelineEntry(l, action, user) ==
    PushPath(l, "timeline", [action |-> action, user |-> user])

\* (a save() that writes the whole timeline array of the in-memory copy)
SaveDelta_setsTimeline(l, p) ==
    [status |-> IF "status" \in l.dirty THEN l.doc.status ELSE p.status,
     assignedEditor |-> IF "assignedEditor" \in l.dirty
                        THEN l.doc.assignedEditor ELSE p.assignedEditor,
     progress |-> IF "progress" \in l.dirty THEN l.doc.progress ELSE p.progress,
     assignedDate |-> IF "assignedDate" \in l.dirty
                      THEN l.doc.assignedDate ELSE p.assignedDate,
     editorDeadlineHours |-> IF "editorDeadlineHours" \in l.dirty
                             THEN l.doc.editorDeadlineHours ELSE p.editorDeadlineHours,
     editorDeadline |-> IF "editorDeadline" \in l.dirty
                        THEN l.doc.editorDeadline ELSE p.editorDeadline,
     isEditorDeadlineExceeded |-> IF "isEditorDeadlineExceeded" \in l.dirty
                                  THEN l.doc.isEditorDeadlineExceeded
                                  ELSE p.isEditorDeadlineExceeded,
     adobeVideoLink |-> IF "adobeVideoLink" \in l.dirty THEN l.doc.adobeVideoLink
                        ELSE IF "adobeVideoLink.url" \in l.dirty
                             THEN [p.adobeVideoLink
                                     EXCEPT !.url = l.doc.adobeVideoLink.url]
                             ELSE p.adobeVideoLink,
     editedVersions |-> p.editedVersions \o l.pushed.editedVersions,
     clientFeedback |-> p.clientFeedback \o l.pushed.clientFeedback,
     adminComments |-> p.adminComments \o l.pushed.adminComments,
     timeline |-> IF l.pushed.timeline # <<>> THEN l.doc.timeline ELSE p.timeline]

\* (a save() that marks every Version approved along with the project)
SaveDelta_approvesVersions(l, p) ==
    [status |-> IF "status" \in l.dirty THEN l.doc.status ELSE p.status,
     assignedEditor |-> IF "assignedEditor" \in l.dirty
                        THEN l.doc.assignedEditor ELSE p.assignedEditor,
     progress |-> IF "progress" \in l.dirty THEN l.doc.progress ELSE p.progress,
     assignedDate |-> IF "assignedDate" \in l.dirty
                      THEN l.doc.assignedDate ELSE p.assignedDate,
     editorDeadlineHours |-> IF "editorDeadlineHours" \in l.dirty
                             THEN l.doc.editorDeadlineHours ELSE p.editorDeadlineHours,
     editorDeadline |-> IF "editorDeadline" \in l.dirty
                        THEN l.doc.editorDeadline ELSE p.editorDeadline,
     isEditorDeadlineExceeded |-> IF "isEditorDeadlineExceeded" \in l.dirty
                                  THEN l.doc.isEditorDeadlineExceeded
                                  ELSE p.isEditorDeadlineExceeded,
     adobeVideoLink |-> IF "adobeVideoLink" \in l.dirty THEN l.doc.adobeVideoLink
                        ELSE IF "adobeVideoLink.url" \in l.dirty
                             THEN [p.adobeVideoLink
                                     EXCEPT !.url = l.doc.adobeVideoLink.url]
                             ELSE p.adobeVideoLink,
     editedVersions |->
         LET vs == p.editedVersions \o l.pushed.editedVersions
         IN IF "status" \in l.dirty /\ l.doc.status = "approved"
            THEN [i \in DOMAIN vs |-> [vs[i] EXCEPT !.status = "approved"]]
            ELSE vs,
     clientFeedback |-> p.clientFeedback \o l.pushed.clientFeedback,
     adminComments |-> p.adminComments \o l.pushed.adminComments,
     timeline |-> p.timeline \o l.pushed.timeline]

\* The update document.save() sends, applied to the persisted project p.
SaveDelta(l, p) ==
    [status |-> IF "status" \in l.dirty THEN l.doc.status ELSE p.status,
     assignedEditor |-> IF "assignedEditor" \in l.dirty
                        THEN l.doc.assignedEditor ELSE p.assignedEditor,
     progress |-> IF "progress" \in l.dirty THEN l.doc.progress ELSE p.progress,
     assignedDate |-> IF "assignedDate" \in l.dirty
                      THEN l.doc.assignedDate ELSE p.assignedDate,
     editorDeadlineHours |-> IF "editorDeadlineHours" \in l.dirty
                             THEN l.doc.editorDeadlineHours ELSE p.editorDeadlineHours,
     editorDeadline |-> IF "editorDeadline" \in l.dirty
                        THEN l.doc.editorDeadline ELSE p.editorDeadline,
     isEditorDeadlineExceeded |-> IF "isEditorDeadlineExceeded" \in l.dirty
                                  THEN l.doc.isEditorDeadlineExceeded
                                  ELSE p.isEditorDeadlineExceeded,
     adobeVideoLink |-> IF "adobeVideoLink" \in l.dirty THEN l.doc.adobeVideoLink
                        ELSE IF "adobeVideoLink.url" \in l.dirty
                             THEN [p.adobeVideoLink
                                     EXCEPT !.url = l.doc.adobeVideoLink.url]
                             ELSE p.adobeVideoLink,
     editedVersions |-> p.editedVersions \o l.pushed.editedVersions,
     clientFeedback |-> p.clientFeedback \o l.pushed.clientFeedback,
     adminComments |-> p.adminComments \o l.pushed.adminComments,
     timeline |-> p.timeline \o l.pushed.timeline]

\* save() has something to send: a modified path or a pushed element
HasChanges(l) == l.dirty # {} \/ l.pushed # NoPush

\* the handler calls a collaborator or writes to the database: log keeps the
\* order of these calls
Logged(l, call) == [l EXCEPT !.log = Append(@, call)]

\* the document after save() has resolved (saves counts the handler's saves)
Saved(l) ==
    [l EXCEPT !.dirty = {}, !.pushed = NoPush, !.saves = @ + 1,
              !.log = IF HasChanges(l) THEN Append(@, "save") ELSE @]

\* The store a handler runs against: S.p the persisted project, S.u the editor
\* accounts, S.now the clock, S.fail the number of the save() of this request
\* that the database rejects (0: none), S.mail whether emailService delivers
\* (FALSE: its calls throw), S.strict whether populate() of a path that is not
\* in the schema throws (the strictPopulate option of the Mongoose in use).
Store(p, u, t, fail) ==
    [p |-> p, u |-> u, now |-> t, fail |-> fail, mail |-> TRUE, strict |-> FALSE]

\* the handler is parked at a save() that the database rejects (the save()
\* of a new document always has the document to send)
SaveFails(l, S) ==
    /\ l.pc \in {"insert", "save", "saveTimeline", "save2"}
    /\ S.fail = l.saves + 1
    /\ l.pc = "insert" \/ HasChanges(l)

\* res.status(...).json(...): the handler is over
Respond(l, r) == [l EXCEPT !.pc = "done", !.result = r]

\* Model.findOne / findById: a fresh document of the persisted project
Found(args, p) ==
    [IdleSlot EXCEPT !.args = args, !.doc = p, !.result = "pending"]

\* projectSchema.methods.getLatestVersion; NoVersion stands for null.  A
\* Version is kept as its number, its approval state and whether its
\* driveFileUrl is set.
NoVersion == [version |-> 0, status |-> "none", driveFileUrl |-> FALSE]
RECURSIVE ReduceLatest(_, _, _)
ReduceLatest(vs, i, latest) ==
    IF i > Len(vs) THEN latest
    ELSE ReduceLatest(vs, i + 1, IF vs[i].version > latest.version THEN vs[i] ELSE latest)
\* (the element stored last)
getLatestVersion_lastElement(p) ==
    IF Len(p.editedVersions) = 0 THEN NoVersion
    ELSE p.editedVersions[Len(p.editedVersions)]

getLatestVersion(p) ==
    IF Len(p.editedVersions) = 0 THEN NoVersion
    ELSE ReduceLatest(p.editedVersions, 2, p.editedVersions[1])

(***************************************************************************)
(* assignProjectToEditor (admin).                                          *)
(* S is the store a handler runs against.                                  *)
(* Every step takes the handler's state l and the store and gives both     *)
(* back as [l |-> ..., S |-> ...].                                         *)
(***************************************************************************)
\* .populate('assignedEditor'): the referenced account, null when it is gone
Populated(p, u) == IF p.assignedEditor \in u THEN p.assignedEditor ELSE Null
\* isReassignment && previousEditor && previousEditor._id.toString() !== editorId
isActualReassignment(isReassignment, previousEditor, editorId) ==
    /\ Truthy(isReassignment)
    /\ previousEditor # Null
    /\ previousEditor # editorId

\* the action text of the assignment's timeline entry
AssignAction(reassigned, editorId, previousEditor) ==
    IF reassigned
    THEN IF previousEditor # Null
         THEN <<"Project reassigned to ", EditorName(editorId),
                " (from ", EditorName(previousEditor), ")">>
         ELSE <<"Project reassigned to ", EditorName(editorId)>>
    ELSE <<"Project assigned to ", EditorName(editorId)>>

\* body('deadlineHours').optional().isInt({ min: 1, max: 720 })
\* (0: the body has no deadlineHours)
DeadlineHoursMin == 1
DeadlineHoursMax == 720
assignProjectValidation(args) ==
    args.deadlineHours # 0
    => (args.deadlineHours >= DeadlineHoursMin /\ args.deadlineHours <= DeadlineHoursMax)

\* const hours = deadlineHours || 24
DeadlineHours(deadlineHours) == IF deadlineHours # 0 THEN deadlineHours ELSE 24

\* new Date(Date.now() + hours * 60 * 60 * 1000), the clock counting hours
EditorDeadlineAt(t, hours) == Date(t + hours)

\* validation, Project.findById(projectId).populate(...)
assign_begin(args, S) ==
    LET prev == Populated(S.p, S.u)
        l == Found(args, [S.p EXCEPT !.assignedEditor = prev])
    IN IF ~assignProjectValidation(args) THEN Respond(l, "ValidationError")
       ELSE [l EXCEPT !.pc = "findEditor", !.prev = prev]

\* User.findById(editorId), the 404, and isActualReassignment
assign_findEditor(l, S) ==
    IF l.args.editorId \notin S.u
    THEN [l |-> Respond(l, "NotFound"), S |-> S]
    ELSE [l |-> [l EXCEPT !.pc = "grantAccess",
                          !.reassign = isActualReassignment(l.args.isReassignment,
                                                            l.prev, l.args.editorId)],
          S |-> S]

\* googleDriveService.grantEditorAccess (a failure is logged and ignored), then
\* the field updates up to project.save(); new Date() and Date.now() read the
\* clock here
assign_grantAccess(l, S) ==
    LET hours == DeadlineHours(l.args.deadlineHours)
        l1 == AssignPath(l, "assignedEditor", l.args.editorId)
        l1a == AssignPath(l1, "assignedDate", Date(S.now))
        l2 == SetPath(l1a, "status", IF l.reassign THEN "reassigned" ELSE "assigned")
        l2a == SetPath(l2, "editorDeadlineHours", hours)
        l2b == AssignPath(l2a, "editorDeadline", EditorDeadlineAt(S.now, hours))
        l2c == SetPath(l2b, "isEditorDeadlineExceeded", FALSE)
        l3 == IF l.args.comments
              THEN PushPath(l2c, "adminComments",
                            [type |-> IF l.reassign THEN "reassignment" ELSE "assignment"])
              ELSE l2c
    IN [l |-> [Logged(l3, "grantEditorAccess") EXCEPT !.pc = "save", !.at = S.now],
        S |-> S]

\* await project.save(), then addTimelineEntry up to its save()
assign_save(l, S) ==
    LET l1 == addTimelineEntry(Saved(l),
                               AssignAction(l.reassign, l.args.editorId, l.prev), Admin)
    IN [l |-> [l1 EXCEPT !.pc = "saveTimeline"],
        S |-> [S EXCEPT !.p = SaveDelta(l, S.p)]]

\* the save() inside addTimelineEntry
assign_saveTimeline(l, S) ==
    [l |-> [Saved(l) EXCEPT !.pc = "email"], S |-> [S EXCEPT !.p = SaveDelta(l, S.p)]]

\* (a notification whose failure fails the request)
assign_email_failsRequest(l, S) ==
    IF S.mail
    THEN [l |-> Respond(Logged(l, "email"), "ok"), S |-> S]
    ELSE [l |-> Respond(Logged(l, "email"), "ServerError"), S |-> S]

\* emailService.sendProjectAssignmentNotification inside try/catch (when it
\* throws, the catch logs the error), then the response
assign_email(l, S) ==
    IF S.mail
    THEN [l |-> Respond(Logged(l, "email"), "ok"), S |-> S]
    ELSE [l |-> Respond(Logged(l, "email"), "ok"), S |-> S]

(***************************************************************************)
(* reviewProject (admin).                                                  *)
(***************************************************************************)
ReviewActions == {"approve", "request_revision", "reassign"}
\* (a review that also takes approved projects)
ReviewReady_approvedToo(p) == p.status \in {"completed", "approved"}


\* "Only allow review if project is completed"
ReviewReady(p) == p.status = "completed"
\* (a reassign branch that changes the status)
ReviewStatus_reassigns(action, status) ==
    CASE action = "approve" -> "approved"
      [] action = "request_revision" -> "revision_requested"
      [] OTHER -> "reassigned"


\* (a reassign branch that puts the project under review)
ReviewStatus_underReview(action, status) ==
    CASE action = "approve" -> "approved"
      [] action = "request_revision" -> "revision_requested"
      [] OTHER -> "under_review"

\* the status each review action leaves in the document
ReviewStatus(action, status) ==
    CASE action = "approve" -> "approved"
      [] action = "request_revision" -> "revision_requested"
      [] OTHER -> status

\* the action text of the review's timeline entry
ReviewAction(action) ==
    CASE action = "approve" -> <<"Project approved by admin - Ready for client download">>
      [] action = "request_revision" -> <<"Admin requested revisions from editor">>
      [] OTHER -> <<"Admin marked project for reassignment during review">>

\* (a review that clears the deadline latch)
review_mutate_clearsLatch(l) ==
    LET l1 == SetPath(l, "status", ReviewStatus(l.args.action, l.doc.status))
        l2 == PushPath(l1, "adminComments", [type |-> "review"])
        l3 == SetPath(l2, "isEditorDeadlineExceeded", FALSE)
    IN addTimelineEntry(l3, ReviewAction(l.args.action), Admin)

\* the branch of one action: status, admin comment, addTimelineEntry up to save()
review_mutate(l) ==
    LET l1 == SetPath(l, "status", ReviewStatus(l.args.action, l.doc.status))
        l2 == PushPath(l1, "adminComments", [type |-> "review"])
    IN addTimelineEntry(l2, ReviewAction(l.args.action), Admin)

\* validation, Project.findById, the status check, the action's branch
review_begin(args, S) ==
    LET l == Found(args, [S.p EXCEPT !.assignedEditor = Populated(S.p, S.u)])
    IN IF args.action \notin ReviewActions THEN Respond(l, "ValidationError")
       ELSE IF ~ReviewReady(l.doc) THEN Respond(l, "InvalidState")
       ELSE [review_mutate(l) EXCEPT !.pc = "save"]

\* the save() inside addTimelineEntry
review_save(l, S) ==
    [l |-> [Saved(l) EXCEPT !.pc = IF l.args.action = "reassign" THEN "save2" ELSE "email"],
     S |-> [S EXCEPT !.p = SaveDelta(l, S.p)]]

\* the notification inside try/catch: approve notifies the client; request_revision
\* reads project.assignedEditor.email, which throws inside the try when the
\* editor's account is gone.  A throw is logged by the catch.
review_email(l, S) ==
    IF l.args.action = "request_revision" /\ l.doc.assignedEditor = Null
    THEN [l |-> [l EXCEPT !.pc = "save2"], S |-> S]
    ELSE IF S.mail
         THEN [l |-> [Logged(l, "email") EXCEPT !.pc = "save2"], S |-> S]
         ELSE [l |-> [Logged(l, "email") EXCEPT !.pc = "save2"], S |-> S]

\* the trailing project.save()
review_save2(l, S) ==
    [l |-> [Saved(l) EXCEPT !.pc = "reread"], S |-> [S EXCEPT !.p = SaveDelta(l, S.p)]]

\* res.json({ ..., project: await Project.findById(projectId).populate(...)
\* .populate('client', ...) }): the project is read again for the response.
\* "client" is no path of projectSchema: where populate() is strict the query
\* throws and the catch answers 500, after the review has been persisted.
review_reread(l, S) ==
    IF S.strict
    THEN [l |-> Respond(l, "ServerError"), S |-> S]
    ELSE [l |-> Respond(l, "ok"), S |-> S]
\* (a find by _id alone)
OwnedBy_anyEditor(p, editorId) == TRUE


(***************************************************************************)
(* updateProjectStatus (editor).                                           *)
(***************************************************************************)
\* Project.findOne({ _id: projectId, assignedEditor: editorId }) finds the project
OwnedBy(p, editorId) == p.assignedEditor = editorId

\* (a list without the status of a revision under way)
validStatuses_noRevision == {"assigned", "in_progress", "completed"}

\* const validStatuses (and the same list in updateStatusValidation)
validStatuses == {"assigned", "in_progress", "completed", "revision_in_progress"}

\* body('progress').optional().isInt({ min: 0, max: 100 })
\* (hasProgress: the body has a progress field)
ProgressMin == 0
ProgressMax == 100
updateStatusValidation(args) ==
    /\ args.status \in validStatuses
    /\ args.hasProgress => (args.progress >= ProgressMin /\ args.progress <= ProgressMax)

\* Math.max(0, Math.min(100, progress))
Max(a, b) == IF a > b THEN a ELSE b
Min(a, b) == IF a < b THEN a ELSE b
ClampProgress(progress) == Max(0, Min(100, progress))

\* the action text of a status update's timeline entry
UpdateAction(oldStatus, status) == <<"Status updated from ", oldStatus, " to ", status>>

\* validation, findOne, the validStatuses check, the update up to the save()
update_begin(args, S) ==
    LET l == Found(args, S.p)
        l1 == SetPath(l, "status", args.status)
        l2 == IF args.hasProgress
              THEN SetPath(l1, "progress", ClampProgress(args.progress))
              ELSE l1
    IN IF ~updateStatusValidation(args) THEN Respond(l, "ValidationError")
       ELSE IF ~OwnedBy(S.p, args.editor) THEN Respond(l, "NotFound")
       ELSE IF args.status \notin validStatuses THEN Respond(l, "ValidationError")
       ELSE [addTimelineEntry(l2, UpdateAction(l.doc.status, args.status), args.editor)
               EXCEPT !.pc = "save"]

\* the save() inside addTimelineEntry, and the response
update_save(l, S) ==
    [l |-> Respond(Saved(l), "ok"), S |-> [S EXCEPT !.p = SaveDelta(l, S.p)]]

(***************************************************************************)
(* uploadEditedVersion (editor).                                           *)
(***************************************************************************)
\* (a number taken from the length of the array)
NewVersionNumber_fromLength(p) == Len(p.editedVersions) + 1

\* latestVersion ? latestVersion.version + 1 : 1
NewVersionNumber(p) ==
    IF getLatestVersion(p) # NoVersion THEN getLatestVersion(p).version + 1 ELSE 1

\* the action text of an upload's timeline entry
UploadAction(n) == <<"Uploaded edited version v", ToString(n)>>

\* the file check, findOne, the version number
upload_begin(args, S) ==
    LET l == Found(args, S.p)
    IN IF ~args.file THEN Respond(l, "ValidationError")
       ELSE IF ~OwnedBy(S.p, args.editor) THEN Respond(l, "NotFound")
       ELSE [l EXCEPT !.pc = "driveUpload", !.nvn = NewVersionNumber(l.doc)]
\* (an upload that records the version whatever the object store answered)
upload_driveUpload_ignoresFailure(l, S) ==
    LET l1 == PushPath(Logged(l, "uploadEditedVersion"), "editedVersions",
                       [version |-> l.nvn, status |-> "pending",
                        driveFileUrl |-> l.args.link])
        l2 == SetPath(l1, "status", "completed")
        l3 == SetPath(l2, "progress", 100)
    IN [l |-> [addTimelineEntry(l3, UploadAction(l.nvn), l.args.editor)
                 EXCEPT !.pc = "save"],
        S |-> S]


\* googleDriveService.uploadEditedVersion: when it throws, the catch answers 500;
\* otherwise the version, status and progress are set, up to the save().  The
\* Version's driveFileUrl is the webViewLink of the object store's answer
\* (args.link: the answer has one).
upload_driveUpload(l, S) ==
    IF ~l.args.driveOk
    THEN [l |-> Respond(Logged(l, "uploadEditedVersion"), "DependencyFailure"), S |-> S]
    ELSE LET l1 == PushPath(Logged(l, "uploadEditedVersion"), "editedVersions",
                            [version |-> l.nvn, status |-> "pending",
                             driveFileUrl |-> l.args.link])
             l2 == SetPath(l1, "status", "completed")
             l3 == SetPath(l2, "progress", 100)
         IN [l |-> [addTimelineEntry(l3, UploadAction(l.nvn), l.args.editor)
                      EXCEPT !.pc = "save"],
             S |-> S]

\* the save() inside addTimelineEntry, and the response
upload_save(l, S) ==
    [l |-> Respond(Saved(l), "ok"), S |-> [S EXCEPT !.p = SaveDelta(l, S.p)]]

(***************************************************************************)
(* submitFeedback (client).                                                *)
(***************************************************************************)
\* body('status').isIn(['approved', 'revision_requested'])
feedbackValidation(args) == args.status \in {"approved", "revision_requested"}

\* (feedback taken in any status)
FeedbackReady_anyStatus(p) == TRUE

\* "Check if project is in correct status for feedback"
FeedbackReady(p) == p.status \in {"approved", "completed"}

\* which branch of "Update project status based on feedback" is taken
FeedbackBranch(status, satisfied, reEditRequested) ==
    IF status = "approved" /\ Truthy(satisfied) THEN "approve"
    ELSE IF status = "revision_requested" \/ ~Truthy(satisfied)
         THEN IF Truthy(reEditRequested) THEN "reedit" ELSE "revision"
         ELSE "none"
\* the status the branch sets
FeedbackStatus(branch, status) ==
    CASE branch = "approve" -> "delivered"
      [] branch = "reedit" -> "client_reedit"
      [] branch = "revision" -> "revision_requested"
      [] OTHER -> status

\* the action text of the branch's timeline entry
FeedbackAction(branch) ==
    CASE branch = "approve" -> <<"Client approved the project">>
      [] branch = "reedit" -> <<"Client requested re-edit">>
      [] OTHER -> <<"Client requested revisions">>

\* version || project.getLatestVersion()?.version || 1   (0: no version in the body)
FeedbackVersion(version, p) ==
    IF version # 0 THEN version
    ELSE IF getLatestVersion(p).version # 0 THEN getLatestVersion(p).version
    ELSE 1

\* feedbackData
FeedbackData(args, p) ==
    [status |-> args.status,
     version |-> FeedbackVersion(args.version, p),
     satisfied |-> CastBoolean(args.satisfied),
     reEditRequested |-> CastBoolean(args.reEditRequested) = "true",
     voice |-> FALSE]

\* validation, findOne, the status check, the feedback and the status up to save()
feedback_begin(args, S) ==
    LET l == Found(args, S.p)
        branch == FeedbackBranch(args.status, args.satisfied, args.reEditRequested)
        l1 == PushPath(l, "clientFeedback", FeedbackData(args, l.doc))
        l2 == SetPath(l1, "status", FeedbackStatus(branch, l.doc.status))
    IN IF ~feedbackValidation(args) THEN Respond(l, "ValidationError")
       ELSE IF ~FeedbackReady(l.doc) THEN Respond(l, "InvalidState")
       ELSE IF branch = "none" THEN [l1 EXCEPT !.pc = "save2"]
       ELSE [addTimelineEntry(l2, FeedbackAction(branch), Null) EXCEPT !.pc = "save"]

\* the save() inside addTimelineEntry
feedback_save(l, S) ==
    [l |-> [Saved(l) EXCEPT !.pc =
                IF FeedbackBranch(l.args.status, l.args.satisfied,
                                  l.args.reEditRequested) = "approve"
                THEN "save2" ELSE "email"],
     S |-> [S EXCEPT !.p = SaveDelta(l, S.p)]]

\* emailService.sendRevisionRequestNotification inside try/catch (a throw is
\* logged by the catch)
feedback_email(l, S) ==
    IF S.mail
    THEN [l |-> [Logged(l, "email") EXCEPT !.pc = "save2"], S |-> S]
    ELSE [l |-> [Logged(l, "email") EXCEPT !.pc = "save2"], S |-> S]

\* the trailing project.save() and the response
feedback_save2(l, S) ==
    [l |-> Respond(Saved(l), "ok"), S |-> [S EXCEPT !.p = SaveDelta(l, S.p)]]

(***************************************************************************)
(* uploadVoiceMessage (client).                                            *)
(***************************************************************************)
\* version: project.versions?.length || 1  (the schema has no path "versions")
VoiceFeedbackVersion == 1

\* the clientFeedback element of a voice message
VoiceFeedback ==
    [status |-> "revision_requested", version |-> VoiceFeedbackVersion,
     satisfied |-> "undefined", reEditRequested |-> FALSE, voice |-> TRUE]

\* the file check and findOne
voice_begin(args, S) ==
    LET l == Found(args, S.p)
    IN IF ~args.file THEN Respond(l, "ValidationError")
       ELSE [l EXCEPT !.pc = "driveUpload"]

\* googleDriveService.uploadVoiceMessageFromBuffer: when it throws, the catch
\* answers 500; otherwise the feedback and the timeline entry are pushed
voice_driveUpload(l, S) ==
    IF ~l.args.driveOk
    THEN [l |-> Respond(Logged(l, "uploadVoiceMessage"), "DependencyFailure"), S |-> S]
    ELSE LET l0 == Logged(l, "uploadVoiceMessage")
             l1 == IF l.args.commentType = "feedback"
                   THEN PushPath(l0, "clientFeedback", VoiceFeedback)
                   ELSE l0
         IN [l |-> [PushPath(l1, "timeline",
                             [action |-> <<"Voice message added">>, user |-> Null])
                      EXCEPT !.pc = "save"],
             S |-> S]

\* project.save() and the response
voice_save(l, S) ==
    [l |-> Respond(Saved(l), "ok"), S |-> [S EXCEPT !.p = SaveDelta(l, S.p)]]

(***************************************************************************)
(* deleteEditor (admin).                                                   *)
(***************************************************************************)
\* Project.countDocuments({ assignedEditor, status: { $in: [...] } }) > 0
HasAssignedProjects(p, editorId) ==
    p.assignedEditor = editorId /\ p.status \in {"assigned", "in_progress"}

\* User.findById and the 404
delete_begin(args, S) ==
    LET l == Found(args, S.p)
    IN IF args.editorId \notin S.u THEN Respond(l, "NotFound")
       ELSE [l EXCEPT !.pc = "count"]

\* the count and the 400
delete_count(l, S) ==
    IF HasAssignedProjects(S.p, l.args.editorId)
    THEN [l |-> Respond(l, "InvalidState"), S |-> S]
    ELSE [l |-> [l EXCEPT !.pc = "delete"], S |-> S]

\* User.findByIdAndDelete and the response
delete_delete(l, S) ==
    [l |-> Respond(l, "ok"), S |-> [S EXCEPT !.u = @ \ {l.args.editorId}]]

(***************************************************************************)
(* addEditor (admin).  args.email names the address in the body, and the   *)
(* account created for it; args.valid is whether addEditorValidation       *)
(* passes.  The User schema is not in this source: args.emailUnique is     *)
(* whether User.create rejects an address that an account has taken since  *)
(* this request looked for it.                                             *)
(***************************************************************************)
\* validationResult and the 400
addEditor_begin(args, S) ==
    LET l == Found(args, S.p)
    IN IF ~args.valid THEN Respond(l, "ValidationError")
       ELSE [l EXCEPT !.pc = "findOne"]

\* User.findOne({ email }) and the 400
addEditor_findOne(l, S) ==
    IF l.args.email \in S.u
    THEN [l |-> Respond(l, "InvalidState"), S |-> S]
    ELSE [l |-> [l EXCEPT !.pc = "create"], S |-> S]

\* User.create; a rejection is answered by the outer catch
addEditor_create(l, S) ==
    IF l.args.email \in S.u /\ l.args.emailUnique
    THEN [l |-> Respond(l, "ServerError"), S |-> S]
    ELSE [l |-> [l EXCEPT !.pc = "sendEditorCredentials"],
          S |-> [S EXCEPT !.u = @ \cup {l.args.email}]]

\* emailService.sendEditorCredentials inside try/catch, then the 201
addEditor_sendEditorCredentials(l, S) ==
    IF S.mail
    THEN [l |-> Respond(Logged(l, "sendEditorCredentials"), "ok"), S |-> S]
    ELSE [l |-> Respond(Logged(l, "sendEditorCredentials"), "ok"), S |-> S]

(***************************************************************************)
(* addAdobeLink and updateAdobeLink (editor).  The routes run              *)
(* adobeLinkValidation, but neither handler reads validationResult: the    *)
(* handler's own check of the url is the only one.  args.url is "none"     *)
(* (missing or blank), "text" (not a URL) or "url".  The adobeVideoLink     *)
(* path they set is not among the paths kept here.                         *)
(***************************************************************************)
\* !url || !url.trim()
adobeLinkRequired(args) == args.url # "none"

\* the action text of the timeline entry
AdobeAction(method) ==
    IF method = "POST" THEN <<"Adobe video link added">>
    ELSE <<"Adobe video link updated">>

\* project.adobeVideoLink = {url, addedDate, addedBy, notes} of addAdobeLink: the
\* whole path is set, its addedDate being new.  updateAdobeLink sets url, notes
\* and addedDate of the path (a nested path of the schema is always there, so
\* the else branch of line 678 is never taken) and leaves addedBy.
SetAdobeLink(l, method, url, editor) ==
    IF method = "POST"
    THEN [l EXCEPT !.doc.adobeVideoLink = [url |-> url, addedBy |-> editor],
                   !.dirty = @ \cup {"adobeVideoLink"}]
    ELSE IF l.doc.adobeVideoLink.url = url THEN l
         ELSE [l EXCEPT !.doc.adobeVideoLink.url = url,
                        !.dirty = @ \cup {"adobeVideoLink.url"}]

\* the url check, findOne, the link and the timeline entry up to project.save()
adobeLink_begin(args, S) ==
    LET l == Found(args, S.p)
    IN IF ~adobeLinkRequired(args) THEN Respond(l, "ValidationError")
       ELSE IF ~OwnedBy(S.p, args.editor) THEN Respond(l, "NotFound")
       ELSE [PushPath(SetAdobeLink(l, args.method, args.url, args.editor), "timeline",
                      [action |-> AdobeAction(args.method), user |-> args.editor])
               EXCEPT !.pc = "save"]

\* project.save() and the response
adobeLink_save(l, S) ==
    [l |-> Respond(Saved(l), "ok"), S |-> [S EXCEPT !.p = SaveDelta(l, S.p)]]

(***************************************************************************)
(* uploadVoiceMessage (admin).                                             *)
(***************************************************************************)
\* the file check, findById and the call of googleDriveService.
\* uploadVoiceMessage(req.file.path, ...).  args.path: req.file has a path,
\* which it has under the router that stores uploads on disk; under the
\* router that keeps them in memory req.file.path is undefined,
\* fs.createReadStream throws before the object store is asked for anything,
\* and the catch answers 500.  The repository holds both routers.
adminVoice_begin(args, S) ==
    LET l == Found(args, S.p)
    IN IF ~args.file THEN Respond(l, "ValidationError")
       ELSE IF ~args.path
            THEN Respond(Logged(l, "uploadVoiceMessage"), "DependencyFailure")
       ELSE [l EXCEPT !.pc = "driveUpload"]

\* googleDriveService.uploadVoiceMessage: when it throws, the catch answers 500;
\* otherwise the admin comment and the timeline entry are pushed
adminVoice_driveUpload(l, S) ==
    IF ~l.args.driveOk
    THEN [l |-> Respond(Logged(l, "uploadVoiceMessage"), "DependencyFailure"), S |-> S]
    ELSE LET l1 == PushPath(Logged(l, "uploadVoiceMessage"), "adminComments",
                            [type |-> l.args.commentType])
         IN [l |-> [PushPath(l1, "timeline",
                             [action |-> <<"Admin voice message added">>, user |-> Admin])
                      EXCEPT !.pc = "save"],
             S |-> S]

\* project.save() and the response
adminVoice_save(l, S) ==
    [l |-> Respond(Saved(l), "ok"), S |-> [S EXCEPT !.p = SaveDelta(l, S.p)]]

(***************************************************************************)
(* projectSchema.methods.updateStatus, called on a document that was just  *)
(* loaded.  No handler of the repository calls it.  It checks neither the  *)
(* status nor the caller.                                                  *)
(***************************************************************************)
\* the action text of the timeline entry
StatusChangedAction(oldStatus, newStatus) ==
    <<"Status changed from ", oldStatus, " to ", newStatus>>

\* this.status = newStatus and addTimelineEntry up to its save()
updateStatus_begin(args, S) ==
    LET l == Found(args, S.p)
        l1 == SetPath(l, "status", args.newStatus)
    IN [addTimelineEntry(l1, StatusChangedAction(l.doc.status, args.newStatus),
                         args.user)
          EXCEPT !.pc = "save"]

\* the save() inside addTimelineEntry resolves
updateStatus_save(l, S) ==
    [l |-> Respond(Saved(l), "ok"), S |-> [S EXCEPT !.p = SaveDelta(l, S.p)]]

(***************************************************************************)
(* projectSchema.methods.checkEditorDeadline, called on a document that    *)
(* was just loaded.  No handler of the repository calls it; its result is  *)
(* "true" or "false".  The save() it starts is not awaited.                *)
(***************************************************************************)
\* ['assigned', 'reassigned', 'in_progress']
DeadlineStatuses == {"assigned", "reassigned", "in_progress"}

\* (a deadline that counts as exceeded at the deadline itself)
IsExceeded_atDeadline(t, p) ==
    t >= Time(p.editorDeadline) /\ p.status \in DeadlineStatuses

\* now > this.editorDeadline && [...].includes(this.status)
IsExceeded(t, p) == t > Time(p.editorDeadline) /\ p.status \in DeadlineStatuses

\* the method up to its return; the latch is set on the document and save() started
check_begin(args, S) ==
    LET l == Found(args, S.p)
    IN IF l.doc.editorDeadline = NoDate \/ l.doc.assignedEditor = Null
       THEN Respond(l, "false")
       ELSE IF IsExceeded(S.now, l.doc) /\ ~l.doc.isEditorDeadlineExceeded
            THEN [SetPath(l, "isEditorDeadlineExceeded", TRUE)
                    EXCEPT !.pc = "save", !.result = "true"]
            ELSE Respond(l, IF IsExceeded(S.now, l.doc) THEN "true" ELSE "false")

\* the save() resolves
check_save(l, S) ==
    [l |-> [Saved(l) EXCEPT !.pc = "done"], S |-> [S EXCEPT !.p = SaveDelta(l, S.p)]]

(***************************************************************************)
(* uploadEnhanced (client) creates the project; uploadMedia cannot.        *)
(***************************************************************************)
\* the collection holds no document of the project yet
NoProject == [NewProject EXCEPT !.status = "none", !.timeline = <<>>]

\* new Project({ ..., status: 'uploaded', ... }) with the schema's defaults
InsertedProject == [NewProject EXCEPT !.timeline = <<>>]

\* the action text of the first timeline entry; uploadEnhanced writes the
\* brandName and the videoType of the body into it
CreateAction(route, clientType, brandName, videoType) ==
    IF route = "uploadMedia" THEN <<"Project created and media uploaded">>
    ELSE IF clientType = "new"
         THEN <<"New client project created for ", brandName, " - ", videoType>>
         ELSE <<"Existing client project created">>

\* projectSchema.videoType.enum (and the list of body('videoType').isIn)
VideoTypes == {"YouTube Video", "Instagram Reel", "Other"}

\* validationResult(req).  uploadEnhanced wants clientType to be new or
\* existing, clientEmail to be an email address and, of a new client, a
\* brandName that is not blank and a videoType of the list; uploadMedia takes
\* a body without any of them, and a clientEmail only when it is an email
\* address (optional({ checkFalsy: true }).isEmail()).  args.clientType =
\* "none": the body has no clientType.  args.clientEmail is "none" (missing
\* or empty), "invalid" (present and no email address), "isEmail" (an address
\* isEmail() accepts and the match of projectSchema.clientEmail does not,
\* such as one in a top-level domain of four letters) or "match" (an address
\* both accept).  The other fields are valid.
createValidation(args) ==
    IF args.route = "uploadMedia" THEN args.clientEmail # "invalid"
    ELSE /\ args.clientType \in {"new", "existing"}
         /\ args.clientEmail \notin {"none", "invalid"}
         /\ args.clientType = "new"
            => (args.brandName # "" /\ args.videoType \in VideoTypes)

\* validation and the check for files (uploadEnhanced: for regular files, voice
\* files or upload links)
create_begin(args, S) ==
    LET l == Found(args, InsertedProject)
    IN IF ~createValidation(args) THEN Respond(l, "ValidationError")
       ELSE IF ~(args.files \/ args.voiceFiles \/ args.links)
            THEN Respond(l, "ValidationError")
       ELSE [l EXCEPT !.pc = "insert"]

\* await project.save() of the new document, the handler's first save().
\* projectSchema requires clientType: uploadMedia builds the document without
\* it and its save() is rejected by the document's validation; so is the
\* save() of a document whose clientEmail does not match.  The outer catch
\* answers 500 and nothing is persisted.  Otherwise the document is inserted.
create_insert(l, S) ==
    IF l.args.route = "uploadMedia" \/ l.args.clientEmail = "isEmail"
    THEN [l |-> Respond(l, "ServerError"), S |-> S]
    ELSE [l |-> [Logged(l, "save") EXCEPT !.pc = "createFolder", !.saves = @ + 1],
          S |-> [S EXCEPT !.p = l.doc]]

\* addTimelineEntry up to its save(), once the files are in the object store
create_addTimelineEntry(l) ==
    [addTimelineEntry(l, CreateAction(l.args.route, l.args.clientType,
                                      l.args.brandName, l.args.videoType), Null)
       EXCEPT !.pc = "save"]

\* if (req.files?.voiceFiles): the await of the voice files, if there are any
create_afterFiles(l) ==
    IF l.args.voiceFiles THEN [l EXCEPT !.pc = "uploadVoiceFiles"]
    ELSE create_addTimelineEntry(l)

\* googleDriveService.createClientProjectStructure: when it throws, the outer
\* catch answers 500; otherwise the handler goes on to the await of the
\* regular files, if there are any
create_createFolder(l, S) ==
    IF ~l.args.folderOk
    THEN [l |-> Respond(Logged(l, "createClientProjectStructure"), "ServerError"),
          S |-> S]
    ELSE LET l1 == Logged(l, "createClientProjectStructure")
         IN [l |-> IF l.args.files THEN [l1 EXCEPT !.pc = "uploadFiles"]
                   ELSE create_afterFiles(l1),
             S |-> S]

\* googleDriveService.uploadFileFromBuffer for every regular file
\* (Promise.all): when one throws, the outer catch answers 500
create_uploadFiles(l, S) ==
    IF ~l.args.filesOk
    THEN [l |-> Respond(Logged(l, "uploadFileFromBuffer"), "ServerError"), S |-> S]
    ELSE [l |-> create_afterFiles(Logged(l, "uploadFileFromBuffer")), S |-> S]

\* googleDriveService.uploadFileFromBuffer for every voice file (Promise.all):
\* when one throws, the outer catch answers 500
create_uploadVoiceFiles(l, S) ==
    IF ~l.args.voiceOk
    THEN [l |-> Respond(Logged(l, "uploadFileFromBuffer"), "ServerError"), S |-> S]
    ELSE [l |-> create_addTimelineEntry(Logged(l, "uploadFileFromBuffer")), S |-> S]

\* the save() inside addTimelineEntry (the handler's second save()), and 201.
\* uploadEnhanced calls emailService.sendProjectCreatedNotification before it
\* answers: EmailService has no such method, the call throws inside the try at
\* once, the catch logs it, and no mail is sent.
create_save(l, S) ==
    [l |-> Respond(Saved(l), "ok"), S |-> [S EXCEPT !.p = SaveDelta(l, S.p)]]

(***************************************************************************)
(* projectSchema.methods.getEditorDeadlineInfo.  The method computes with  *)
(* milliseconds: here the deadline is Date(d) and the time of the call t,  *)
(* both in milliseconds.  No handler of the repository calls it.           *)
(***************************************************************************)
\* (1000 * 60 * 60)
MsPerHour == 1000 * 60 * 60
\* (a division that rounds down)
CeilDiv_floor(a, b) == a \div b

\* Math.ceil(a / b) for b > 0
CeilDiv(a, b) == -((-a) \div b)

\* return null
NoDeadlineInfo == [null |-> TRUE, hoursLeft |-> 0, isExceeded |-> FALSE]

getEditorDeadlineInfo(deadline, t) ==
    IF deadline = NoDate THEN NoDeadlineInfo
    ELSE LET timeLeft == Time(deadline) - t
             hoursLeft == CeilDiv(timeLeft, MsPerHour)
         IN [null |-> FALSE, hoursLeft |-> Max(0, hoursLeft),
             isExceeded |-> timeLeft <= 0]

(***************************************************************************)
(* KeepAliveService (a singleton).  The service's fields are isActive,     *)
(* intervalId (set or null), pingCount and errors (their number); the      *)
(* timers it has created live in the event loop: intervals counts the      *)
(* periodic timers that are set, timeouts the initial-ping timers that     *)
(* have not fired yet, pending the requests ping() has sent whose          *)
(* callbacks have not run.                                                 *)
(***************************************************************************)
\* constructor
KeepAliveService ==
    [isActive |-> FALSE, intervalId |-> FALSE, pingCount |-> 0, errors |-> 0,
     intervals |-> 0, timeouts |-> 0, pending |-> 0]

\* start(): nothing when active; otherwise setTimeout for the initial ping
\* (its handle is not kept) and setInterval, whose handle is intervalId
start(k) ==
    IF k.isActive THEN k
    ELSE [k EXCEPT !.isActive = TRUE,
                   !.timeouts = @ + 1,
                   !.intervals = @ + 1,
                   !.intervalId = TRUE]

\* stop(): clearInterval(intervalId) when it is set; isActive = false
stop(k) ==
    LET k1 == IF k.intervalId
              THEN [k EXCEPT !.intervals = @ - 1, !.intervalId = FALSE]
              ELSE k
    IN [k1 EXCEPT !.isActive = FALSE]

\* this.errors.slice(-5)
MaxErrorsKept == 5

\* ping(), up to the request it sends: nothing when not active; otherwise
\* the ping is counted and requestModule.get is called
ping(k) ==
    IF ~k.isActive THEN k
    ELSE [k EXCEPT !.pingCount = @ + 1, !.pending = @ + 1]

\* clearOldErrors(): the errors younger than an hour stay, kept of them
clearOldErrors(k, kept) == [k EXCEPT !.errors = Min(@, kept)]

\* req.on('error'): one more error, the last five are kept
ping_error(k) == [k EXCEPT !.errors = Min(@ + 1, MaxErrorsKept)]

\* the callbacks of the request ping() sent.  outcome is what the request
\* comes to: "end" (the response ended), "error", "timeout" (the socket idles
\* before any response: req.destroy() makes the request emit 'error' as well)
\* or "stalled" (the socket idles after the response has begun: req.destroy()
\* aborts the response, the request emits no 'error' and 'end' never comes).
ping_callback(k, outcome, kept) ==
    LET k1 == [k EXCEPT !.pending = @ - 1]
    IN CASE outcome = "end" -> clearOldErrors(k1, kept)
         [] outcome \in {"error", "timeout"} -> ping_error(k1)
         [] OTHER -> k1

(***************************************************************************)
(* The client's read views: getProjectStatus, getDownloadLink,             *)
(* downloadLatestVersion and getProjectTimeline.  A timeline action is     *)
(* kept as the pieces of its template string; ActionText is the string.    *)
(***************************************************************************)
RECURSIVE ActionText(_)
ActionText(pieces) ==
    IF pieces = <<>> THEN "" ELSE Head(pieces) \o ActionText(Tail(pieces))

\* String.prototype.includes
Includes(str, phrase) ==
    \E i \in 1..(Len(str) - Len(phrase) + 1) :
        SubSeq(str, i, i + Len(phrase) - 1) = phrase

\* const clientRelevantActions
clientRelevantActions ==
    {"Project created and media uploaded",
     "Project assigned to editor",
     "Status updated",
     "Uploaded edited version",
     "Project approved and sent to client",
     "Client approved the project",
     "Client requested revisions"}

\* the callback of project.timeline.filter
ClientRelevant(entry) ==
    \E action \in clientRelevantActions :
        \/ Includes(ActionText(entry.action), action)
        \/ Includes(ActionText(entry.action), "Status changed")

\* getProjectTimeline: the filtered timeline of the response
getProjectTimeline(p) == SelectSeq(p.timeline, ClientRelevant)

\* what a read answers about the latest Version: code is the response's kind,
\* file whether it carries the Version's file reference (driveFileUrl, download URL)
Answer(code, file) == [code |-> code, file |-> file]

\* getProjectStatus: latestVersion, with its driveFileUrl, is included for
\* completed, approved, delivered
getProjectStatus(p) ==
    Answer("ok", /\ getLatestVersion(p) # NoVersion
                 /\ p.status \in {"completed", "approved", "delivered"}
                 /\ getLatestVersion(p).driveFileUrl)

\* getDownloadLink: 403 unless approved, 404 without a version or without its
\* driveFileUrl; otherwise the link made of the Version's driveFileId
getDownloadLink(p) ==
    IF p.status # "approved" THEN Answer("Forbidden", FALSE)
    ELSE IF getLatestVersion(p) = NoVersion \/ ~getLatestVersion(p).driveFileUrl
         THEN Answer("NotFound", FALSE)
    ELSE Answer("ok", TRUE)

\* downloadLatestVersion up to its second await: findOne, 400 unless approved,
\* completed or delivered, 404 without a version
download_begin(args, S) ==
    LET l == Found(args, S.p)
    IN IF l.doc.status \notin {"approved", "completed", "delivered"}
       THEN Respond(l, Answer("InvalidState", FALSE))
       ELSE IF getLatestVersion(l.doc) = NoVersion
            THEN Respond(l, Answer("NotFound", FALSE))
       ELSE [l EXCEPT !.pc = "getFileDownloadUrl"]

\* googleDriveService.getFileDownloadUrl: when it throws, the inner catch
\* answers 500; otherwise the response carries the download URL
download_getFileDownloadUrl(l, S) ==
    IF ~l.args.driveOk
    THEN [l |-> Respond(Logged(l, "getFileDownloadUrl"), Answer("ServerError", FALSE)),
          S |-> S]
    ELSE [l |-> Respond(Logged(l, "getFileDownloadUrl"), Answer("ok", TRUE)), S |-> S]

(***************************************************************************)
(* A handler from request to response.                                     *)
(***************************************************************************)
\* the handler's code up to its first await after the find
Begin(args, S) ==
    CASE args.op = "assign" -> assign_begin(args, S)
      [] args.op = "review" -> review_begin(args, S)
      [] args.op = "update" -> update_begin(args, S)
      [] args.op = "upload" -> upload_begin(args, S)
      [] args.op = "feedback" -> feedback_begin(args, S)
      [] args.op = "voice" -> voice_begin(args, S)
      [] args.op = "delete" -> delete_begin(args, S)
      [] args.op = "addEditor" -> addEditor_begin(args, S)
      [] args.op = "check" -> check_begin(args, S)
      [] args.op = "create" -> create_begin(args, S)
      [] args.op = "adobeLink" -> adobeLink_begin(args, S)
      [] args.op = "adminVoice" -> adminVoice_begin(args, S)
      [] args.op = "updateStatus" -> updateStatus_begin(args, S)
      [] args.op = "downloadLatestVersion" -> download_begin(args, S)

\* the handler's code from one await to the next; a save() that rejects
\* throws into the handler's catch, which answers 500.  checkEditorDeadline
\* has returned when its save() settles and nothing catches a rejection:
\* the latch is not persisted, and what the process does with the unhandled
\* rejection is the runtime's.
Step(l, S) ==
    IF SaveFails(l, S)
    THEN [l |-> IF l.args.op = "check" THEN [l EXCEPT !.pc = "done"]
                ELSE Respond(l, "ServerError"),
          S |-> S]
    ELSE
    CASE l.args.op = "assign" /\ l.pc = "findEditor" -> assign_findEditor(l, S)
      [] l.args.op = "assign" /\ l.pc = "grantAccess" -> assign_grantAccess(l, S)
      [] l.args.op = "assign" /\ l.pc = "save" -> assign_save(l, S)
      [] l.args.op = "assign" /\ l.pc = "saveTimeline" -> assign_saveTimeline(l, S)
      [] l.args.op = "assign" /\ l.pc = "email" -> assign_email(l, S)
      [] l.args.op = "review" /\ l.pc = "save" -> review_save(l, S)
      [] l.args.op = "review" /\ l.pc = "email" -> review_email(l, S)
      [] l.args.op = "review" /\ l.pc = "save2" -> review_save2(l, S)
      [] l.args.op = "review" /\ l.pc = "reread" -> review_reread(l, S)
      [] l.args.op = "update" /\ l.pc = "save" -> update_save(l, S)
      [] l.args.op = "upload" /\ l.pc = "driveUpload" -> upload_driveUpload(l, S)
      [] l.args.op = "upload" /\ l.pc = "save" -> upload_save(l, S)
      [] l.args.op = "feedback" /\ l.pc = "save" -> feedback_save(l, S)
      [] l.args.op = "feedback" /\ l.pc = "email" -> feedback_email(l, S)
      [] l.args.op = "feedback" /\ l.pc = "save2" -> feedback_save2(l, S)
      [] l.args.op = "voice" /\ l.pc = "driveUpload" -> voice_driveUpload(l, S)
      [] l.args.op = "voice" /\ l.pc = "save" -> voice_save(l, S)
      [] l.args.op = "delete" /\ l.pc = "count" -> delete_count(l, S)
      [] l.args.op = "delete" /\ l.pc = "delete" -> delete_delete(l, S)
      [] l.args.op = "addEditor" /\ l.pc = "findOne" -> addEditor_findOne(l, S)
      [] l.args.op = "addEditor" /\ l.pc = "create" -> addEditor_create(l, S)
      [] l.args.op = "addEditor" /\ l.pc = "sendEditorCredentials"
         -> addEditor_sendEditorCredentials(l, S)
      [] l.args.op = "check" /\ l.pc = "save" -> check_save(l, S)
      [] l.args.op = "create" /\ l.pc = "insert" -> create_insert(l, S)
      [] l.args.op = "create" /\ l.pc = "createFolder" -> create_createFolder(l, S)
      [] l.args.op = "create" /\ l.pc = "uploadFiles" -> create_uploadFiles(l, S)
      [] l.args.op = "create" /\ l.pc = "uploadVoiceFiles" -> create_uploadVoiceFiles(l, S)
      [] l.args.op = "create" /\ l.pc = "save" -> create_save(l, S)
      [] l.args.op = "adobeLink" /\ l.pc = "save" -> adobeLink_save(l, S)
      [] l.args.op = "adminVoice" /\ l.pc = "driveUpload" -> adminVoice_driveUpload(l, S)
      [] l.args.op = "adminVoice" /\ l.pc = "save" -> adminVoice_save(l, S)
      [] l.args.op = "updateStatus" /\ l.pc = "save" -> updateStatus_save(l, S)
      [] l.args.op = "downloadLatestVersion" /\ l.pc = "getFileDownloadUrl"
            -> download_getFileDownloadUrl(l, S)

\* the save() of a request that the database rejects (0: none)
FailPoints == {0, 1, 2}

\* all the steps of a handler that no other request interleaves with
RECURSIVE Run(_, _)
Run(l, S) ==
    IF l.pc = "done" THEN [l |-> l, S |-> S]
    ELSE LET r == Step(l, S) IN Run(r.l, r.S)

(***************************************************************************)
(* The requests.                                                           *)
(***************************************************************************)
AssignArgs ==
    [op : {"assign"}, editorId : Editors, isReassignment : {"undefined", "true", "'false'"},
     comments : {FALSE}, deadlineHours : {0}]
    \cup [op : {"assign"}, editorId : {"e2"}, isReassignment : {"true"},
          comments : {FALSE}, deadlineHours : {1}]
    \cup [op : {"assign"}, editorId : {"e1"}, isReassignment : {"true"},
          comments : {TRUE}, deadlineHours : {0}]
ReviewArgs == [op : {"review"}, action : ReviewActions \cup {"archive"}]
ProgressInputs == {-5, 30, 60, 150}
UpdateArgs ==
    [op : {"update"}, editor : {"e1"}, status : {"assigned", "in_progress", "completed",
                                                 "delivered"},
     hasProgress : {FALSE}, progress : {0}]
    \cup [op : {"update"}, editor : {"e1"}, status : {"in_progress"},
          hasProgress : {TRUE}, progress : ProgressInputs]
    \cup [op : {"update"}, editor : {"e2"}, status : {"in_progress"},
          hasProgress : {FALSE}, progress : {0}]
UploadArgs ==
    [op : {"upload"}, editor : {"e1"}, file : {TRUE}, driveOk : BOOLEAN,
          link : {TRUE}]
    \cup [op : {"upload"}, editor : {"e1"}, file : {FALSE}, driveOk : {TRUE},
          link : {TRUE}]
    \cup [op : {"upload"}, editor : {"e2"}, file : {TRUE}, driveOk : {TRUE},
          link : {TRUE}]
VersionInputs == {0, 3}
FeedbackArgs ==
    [op : {"feedback"}, status : {"approved"}, satisfied : FlagInputs,
     reEditRequested : {"undefined"}, version : {0}]
    \cup [op : {"feedback"}, status : {"revision_requested"}, satisfied : {"true"},
          reEditRequested : FlagInputs, version : {0}]
    \cup [op : {"feedback"}, status : {"approved"}, satisfied : {"true"},
          reEditRequested : {"undefined"}, version : VersionInputs]
    \cup [op : {"feedback"}, status : {"delivered"}, satisfied : {"true"},
          reEditRequested : {"undefined"}, version : {0}]
VoiceArgs ==
    [op : {"voice"}, commentType : {"feedback", "general"}, file : {TRUE}, driveOk : {TRUE}]
    \cup [op : {"voice"}, commentType : {"feedback"}, file : {FALSE}, driveOk : {TRUE}]
    \cup [op : {"voice"}, commentType : {"feedback"}, file : {TRUE}, driveOk : {FALSE}]
DeleteArgs == [op : {"delete"}, editorId : Editors]
\* an address that no account has at first
AddEditorArgs ==
    [op : {"addEditor"}, email : {"e3"}, valid : BOOLEAN, emailUnique : {TRUE}]
    \cup [op : {"addEditor"}, email : {"e3"}, valid : {TRUE}, emailUnique : {FALSE}]
AdobeLinkArgs ==
    [op : {"adobeLink"}, editor : {"e1"}, method : {"POST"}, url : {"none", "text", "url"}]
    \cup [op : {"adobeLink"}, editor : {"e1"}, method : {"PUT"}, url : {"url"}]
    \cup [op : {"adobeLink"}, editor : {"e2"}, method : {"POST"}, url : {"url"}]
AdminVoiceArgs ==
    [op : {"adminVoice"}, commentType : {"general"}, file : {TRUE}, path : {TRUE},
     driveOk : BOOLEAN]
    \cup [op : {"adminVoice"}, commentType : {"general"}, file : {TRUE}, path : {FALSE},
          driveOk : {TRUE}]
    \cup [op : {"adminVoice"}, commentType : {"general"}, file : {FALSE}, path : {TRUE},
          driveOk : {TRUE}]

(***************************************************************************)
(* Projects the specifications start from: the handlers above, run one     *)
(* after the other on the new project.                                     *)
(***************************************************************************)
RECURSIVE After(_, _)
After(S, ops) ==
    IF ops = <<>> THEN S
    ELSE After(Run(Begin(Head(ops), S), S).S, Tail(ops))

\* the admin assigns the project to e1
FirstAssignment(hours) ==
    [op |-> "assign", editorId |-> "e1", isReassignment |-> "undefined",
     comments |-> FALSE, deadlineHours |-> hours]
\* assigned to e1
AssignedProject ==
    After(Store(NewProject, Editors, 0, 0), << FirstAssignment(0) >>).p
\* assigned to e1 with a deadline of one hour
DueProject ==
    After(Store(NewProject, Editors, 0, 0), << FirstAssignment(1) >>).p
\* a version was uploaded by e1
CompletedProject ==
    After(Store(AssignedProject, Editors, 0, 0),
          << [op |-> "upload", editor |-> "e1", file |-> TRUE, driveOk |-> TRUE,
              link |-> TRUE] >>).p
\* and approved by the admin
ApprovedProject ==
    After(Store(CompletedProject, Editors, 0, 0),
          << [op |-> "review", action |-> "approve"] >>).p

(***************************************************************************)
(* The server.  Node serves the requests on one event loop: a handler runs *)
(* from one await to the next without interruption, and at every await the *)
(* requests that are in flight may be resumed in any order.  Two requests  *)
(* that write are in flight at most (the slots); the client's download has *)
(* a slot of its own.                                                      *)
(***************************************************************************)
Slots == {1, 2}
ReadSlot == Cardinality(Slots) + 1

\* what is left of a handler's state after its response
Finished(l) ==
    IF l.pc = "done"
    THEN [IdleSlot EXCEPT !.pc = "done", !.args = l.args, !.result = l.result]
    ELSE l

\* the request that arrives against the store S
Arrived(l, S) ==
    [l EXCEPT !.before = S.p, !.usersBefore = S.u, !.at = S.now, !.fail = S.fail,
              !.mail = S.mail, !.pre = S.p, !.post = S.p]

\* what last keeps of a request that has been answered
Record(l) ==
    [args |-> l.args, result |-> l.result, before |-> l.before, pre |-> l.pre,
     post |-> l.post, writes |-> l.writes, usersBefore |-> l.usersBefore,
     at |-> l.at, fail |-> l.fail, mail |-> l.mail, log |-> l.log]

\* the writes to the database among the calls of log
Writes(log) == Len(SelectSeq(log, LAMBDA call : call = "save"))

\* the handler state l after a step from the state l0, the persisted project
\* being p before the step and q after it
Tracked(l0, l, p, q) ==
    IF Writes(l.log) = Writes(l0.log) THEN l
    ELSE [l EXCEPT !.writes = @ + 1, !.pre = IF l0.writes = 0 THEN p ELSE @, !.post = q]

\* the store as the request in slot s meets it
StoreOf(s) ==
    [Store(db, users, now, slot[s].fail) EXCEPT !.mail = slot[s].mail,
                                                 !.strict = strictPopulate]

\* no request is parked at an await
Quiet == \A s \in Slots : slot[s].pc \in {"idle", "done"}

\* slot s can take a request (the second slot is taken after the first)
Free(s) ==
    /\ slot[s].pc \in {"idle", "done"}
    /\ s = 1 \/ slot[1].pc # "idle"

\* a request arrives and runs up to its first await after the find; the
\* database rejects its save() number fail, the notifier works for it when mail
Start(s, args, fail, mail) ==
    LET S == [Store(db, users, now, fail) EXCEPT !.mail = mail, !.strict = strictPopulate]
        l == Arrived(Begin(args, S), S)
    IN /\ slot' = [slot EXCEPT ![s] = Finished(l)]
       /\ last' = IF l.pc = "done" THEN Record(l) ELSE last
       /\ UNCHANGED <<db, users, now, keepAlive, strictPopulate>>

\* a request arrives at a server whose database and notifier work
Arrive(s, args) ==
    /\ Start(s, args, 0, TRUE)
    /\ nops' = nops + 1

\* the request in slot s resumes after the await it is parked at
Resume(s) ==
    LET r == Step(slot[s], StoreOf(s))
        l == Tracked(slot[s], r.l, db, r.S.p)
    IN /\ slot' = [slot EXCEPT ![s] = Finished(l)]
       /\ db' = r.S.p
       /\ users' = r.S.u
       /\ last' = IF l.pc = "done" THEN Record(l) ELSE last
       /\ UNCHANGED <<nops, now, keepAlive, strictPopulate>>

\* a method is called on the persisted project: its arguments and what it returned
Called(args, result) ==
    /\ last' = [Record(Arrived(IdleSlot, Store(db, users, now, 0)))
                  EXCEPT !.args = args, !.result = result]
    /\ UNCHANGED <<db, users, slot, nops, now, keepAlive, strictPopulate>>

\* the state of a server that has projects in seeds, at the time t
InitAt(seeds, t) ==
    /\ db \in seeds
    /\ users = Editors
    /\ last = Record(Arrived(IdleSlot, Store(db, users, t, 0)))
    /\ slot = [s \in Slots \cup {ReadSlot} |-> IdleSlot]
    /\ nops = 0
    /\ now = t
    /\ keepAlive = KeepAliveService
    /\ strictPopulate \in BOOLEAN
InitWith(seeds) == InitAt(seeds, 0)

(***************************************************************************)
(* The steps of the handlers.                                              *)
(***************************************************************************)
AssignFindEditor(s) ==
    /\ slot[s].args.op = "assign" /\ slot[s].pc = "findEditor"
    /\ Resume(s)
AssignGrantAccess(s) ==
    /\ slot[s].args.op = "assign" /\ slot[s].pc = "grantAccess"
    /\ Resume(s)
AssignSave(s) ==
    /\ slot[s].args.op = "assign" /\ slot[s].pc = "save"
    /\ Resume(s)
AssignSaveTimeline(s) ==
    /\ slot[s].args.op = "assign" /\ slot[s].pc = "saveTimeline"
    /\ Resume(s)
AssignEmail(s) ==
    /\ slot[s].args.op = "assign" /\ slot[s].pc = "email"
    /\ Resume(s)
AssignSteps(s) ==
    \/ AssignFindEditor(s) \/ AssignGrantAccess(s) \/ AssignSave(s)
    \/ AssignSaveTimeline(s) \/ AssignEmail(s)

ReviewSave(s) ==
    /\ slot[s].args.op = "review" /\ slot[s].pc = "save"
    /\ Resume(s)
ReviewEmail(s) ==
    /\ slot[s].args.op = "review" /\ slot[s].pc = "email"
    /\ Resume(s)
ReviewSave2(s) ==
    /\ slot[s].args.op = "review" /\ slot[s].pc = "save2"
    /\ Resume(s)
ReviewReread(s) ==
    /\ slot[s].args.op = "review" /\ slot[s].pc = "reread"
    /\ Resume(s)
ReviewSteps(s) ==
    ReviewSave(s) \/ ReviewEmail(s) \/ ReviewSave2(s) \/ ReviewReread(s)

UpdateSave(s) ==
    /\ slot[s].args.op = "update" /\ slot[s].pc = "save"
    /\ Resume(s)

UploadDriveUpload(s) ==
    /\ slot[s].args.op = "upload" /\ slot[s].pc = "driveUpload"
    /\ Resume(s)
UploadSave(s) ==
    /\ slot[s].args.op = "upload" /\ slot[s].pc = "save"
    /\ Resume(s)
UploadSteps(s) == UploadDriveUpload(s) \/ UploadSave(s)

FeedbackSave(s) ==
    /\ slot[s].args.op = "feedback" /\ slot[s].pc = "save"
    /\ Resume(s)
FeedbackEmail(s) ==
    /\ slot[s].args.op = "feedback" /\ slot[s].pc = "email"
    /\ Resume(s)
FeedbackSave2(s) ==
    /\ slot[s].args.op = "feedback" /\ slot[s].pc = "save2"
    /\ Resume(s)
FeedbackSteps(s) == FeedbackSave(s) \/ FeedbackEmail(s) \/ FeedbackSave2(s)

VoiceDriveUpload(s) ==
    /\ slot[s].args.op = "voice" /\ slot[s].pc = "driveUpload"
    /\ Resume(s)
VoiceSave(s) ==
    /\ slot[s].args.op = "voice" /\ slot[s].pc = "save"
    /\ Resume(s)
VoiceSteps(s) == VoiceDriveUpload(s) \/ VoiceSave(s)

DeleteCount(s) ==
    /\ slot[s].args.op = "delete" /\ slot[s].pc = "count"
    /\ Resume(s)
DeleteDelete(s) ==
    /\ slot[s].args.op = "delete" /\ slot[s].pc = "delete"
    /\ Resume(s)
DeleteSteps(s) == DeleteCount(s) \/ DeleteDelete(s)

AddEditorFindOne(s) ==
    /\ slot[s].args.op = "addEditor" /\ slot[s].pc = "findOne"
    /\ Resume(s)
AddEditorCreate(s) ==
    /\ slot[s].args.op = "addEditor" /\ slot[s].pc = "create"
    /\ Resume(s)
AddEditorSendEditorCredentials(s) ==
    /\ slot[s].args.op = "addEditor" /\ slot[s].pc = "sendEditorCredentials"
    /\ Resume(s)
AddEditorSteps(s) ==
    AddEditorFindOne(s) \/ AddEditorCreate(s) \/ AddEditorSendEditorCredentials(s)

AdobeLinkSave(s) ==
    /\ slot[s].args.op = "adobeLink" /\ slot[s].pc = "save"
    /\ Resume(s)

AdminVoiceDriveUpload(s) ==
    /\ slot[s].args.op = "adminVoice" /\ slot[s].pc = "driveUpload"
    /\ Resume(s)
AdminVoiceSave(s) ==
    /\ slot[s].args.op = "adminVoice" /\ slot[s].pc = "save"
    /\ Resume(s)
AdminVoiceSteps(s) == AdminVoiceDriveUpload(s) \/ AdminVoiceSave(s)

CheckSave(s) ==
    /\ slot[s].args.op = "check" /\ slot[s].pc = "save"
    /\ Resume(s)

UpdateStatusSave(s) ==
    /\ slot[s].args.op = "updateStatus" /\ slot[s].pc = "save"
    /\ Resume(s)

CreateInsert(s) ==
    /\ slot[s].args.op = "create" /\ slot[s].pc = "insert"
    /\ Resume(s)
CreateCreateFolder(s) ==
    /\ slot[s].args.op = "create" /\ slot[s].pc = "createFolder"
    /\ Resume(s)
CreateUploadFiles(s) ==
    /\ slot[s].args.op = "create" /\ slot[s].pc = "uploadFiles"
    /\ Resume(s)
CreateUploadVoiceFiles(s) ==
    /\ slot[s].args.op = "create" /\ slot[s].pc = "uploadVoiceFiles"
    /\ Resume(s)
CreateSave(s) ==
    /\ slot[s].args.op = "create" /\ slot[s].pc = "save"
    /\ Resume(s)
CreateSteps(s) ==
    \/ CreateInsert(s) \/ CreateCreateFolder(s) \/ CreateUploadFiles(s)
    \/ CreateUploadVoiceFiles(s) \/ CreateSave(s)

(***************************************************************************)
(* Spec: the requests of the admin, the editors and the client on a        *)
(* project that exists.                                                    *)
(***************************************************************************)
Seeds == {NewProject, AssignedProject, CompletedProject, ApprovedProject}

Init == InitWith(Seeds)

assignProjectToEditor(s) ==
    /\ Free(s) /\ nops < MaxOps
    /\ \E args \in AssignArgs : Arrive(s, args)
reviewProject(s) ==
    /\ Free(s) /\ nops < MaxOps
    /\ \E args \in ReviewArgs : Arrive(s, args)
updateProjectStatus(s) ==
    /\ Free(s) /\ nops < MaxOps
    /\ \E args \in UpdateArgs : Arrive(s, args)
uploadEditedVersion(s) ==
    /\ Free(s) /\ nops < MaxOps
    /\ \E args \in UploadArgs : Arrive(s, args)
submitFeedback(s) ==
    /\ Free(s) /\ nops < MaxOps
    /\ \E args \in FeedbackArgs : Arrive(s, args)
uploadVoiceMessage(s) ==
    /\ Free(s) /\ nops < MaxOps
    /\ \E args \in VoiceArgs : Arrive(s, args)
deleteEditor(s) ==
    /\ Free(s) /\ nops < MaxOps
    /\ \E args \in DeleteArgs : Arrive(s, args)
addEditor(s) ==
    /\ Free(s) /\ nops < MaxOps
    /\ \E args \in AddEditorArgs : Arrive(s, args)
addAdobeLink(s) ==
    /\ Free(s) /\ nops < MaxOps
    /\ \E args \in AdobeLinkArgs : Arrive(s, args)
adminUploadVoiceMessage(s) ==
    /\ Free(s) /\ nops < MaxOps
    /\ \E args \in AdminVoiceArgs : Arrive(s, args)

Next ==
    \E s \in Slots :
        \/ assignProjectToEditor(s) \/ AssignSteps(s)
        \/ reviewProject(s) \/ ReviewSteps(s)
        \/ updateProjectStatus(s) \/ UpdateSave(s)
        \/ uploadEditedVersion(s) \/ UploadSteps(s)
        \/ submitFeedback(s) \/ FeedbackSteps(s)
        \/ uploadVoiceMessage(s) \/ VoiceSteps(s)
        \/ deleteEditor(s) \/ DeleteSteps(s)
        \/ addEditor(s) \/ AddEditorSteps(s)
        \/ addAdobeLink(s) \/ AdobeLinkSave(s)
        \/ adminUploadVoiceMessage(s) \/ AdminVoiceSteps(s)

Spec == Init /\ [][Next]_vars

(***************************************************************************)
(* The requests that move a project through its lifecycle.                 *)
(***************************************************************************)
TransitionArgs ==
    [op : {"assign"}, editorId : Editors, isReassignment : {"true"},
     comments : {FALSE}, deadlineHours : {0, 1}]
    \cup [op : {"update"}, editor : {"e1"}, status : {"in_progress", "completed"},
          hasProgress : {FALSE}, progress : {0}]
    \cup [op : {"upload"}, editor : {"e1"}, file : {TRUE}, driveOk : {TRUE},
          link : {TRUE}]
    \cup [op : {"review"}, action : {"approve", "request_revision"}]
    \cup [op : {"feedback"}, status : {"approved", "revision_requested"},
          satisfied : {"true"}, reEditRequested : {"false"}, version : {0}]
Transitions(op) == {args \in TransitionArgs : args.op = op}

(***************************************************************************)
(* SpecOverlap: the lifecycle of one project, with the requests that are   *)
(* turned away, the client's voice message and the deletion of an editor.  *)
(***************************************************************************)
OverlapArgs ==
    [op : {"assign"}, editorId : {"e2"}, isReassignment : {"true"},
     comments : {FALSE}, deadlineHours : {0}]
    \cup [op : {"update"}, editor : Editors, status : {"in_progress"},
          hasProgress : {FALSE}, progress : {0}]
    \cup [op : {"update"}, editor : {"e1"}, status : {"under_review"},
          hasProgress : {FALSE}, progress : {0}]
    \cup [op : {"upload"}, editor : {"e1"}, file : {TRUE}, driveOk : BOOLEAN,
          link : {TRUE}]
    \cup [op : {"upload"}, editor : {"e2"}, file : {TRUE}, driveOk : {TRUE},
          link : {TRUE}]
    \cup [op : {"review"}, action : ReviewActions]
    \cup [op : {"feedback"}, status : {"approved", "revision_requested"},
          satisfied : {"true"}, reEditRequested : {"false"}, version : {0}]
    \cup [op : {"voice"}, commentType : {"feedback"}, file : {TRUE}, driveOk : {TRUE}]
    \cup [op : {"delete"}, editorId : {"e1"}]

OverlapRequest(s) ==
    /\ Free(s) /\ nops < MaxConc
    /\ \E args \in OverlapArgs : Arrive(s, args)

NextOverlap ==
    \E s \in Slots :
        \/ OverlapRequest(s)
        \/ AssignSteps(s) \/ ReviewSteps(s) \/ UpdateSave(s) \/ UploadSteps(s)
        \/ FeedbackSteps(s) \/ VoiceSteps(s) \/ DeleteSteps(s)

SpecOverlap == Init /\ [][NextOverlap]_vars

(***************************************************************************)
(* SpecDeadline: the clock advances an hour at a time, also while requests *)
(* are parked at an await, and checkEditorDeadline is called at any time.  *)
(* The project is assigned to e1 and due in an hour; the admin assigns it  *)
(* again, e1 reports progress or completion and uploads, the admin reviews *)
(* and the client gives feedback.                                          *)
(***************************************************************************)
DeadlineArgs ==
    {[op |-> "assign", editorId |-> "e1", isReassignment |-> "true",
      comments |-> FALSE, deadlineHours |-> 0],
     [op |-> "assign", editorId |-> "e2", isReassignment |-> "true",
      comments |-> FALSE, deadlineHours |-> 1]}
    \cup [op : {"update"}, editor : {"e1"}, status : {"in_progress", "completed"},
          hasProgress : {FALSE}, progress : {0}]
    \cup [op : {"upload"}, editor : {"e1"}, file : {TRUE}, driveOk : {TRUE},
          link : {TRUE}]
    \cup [op : {"review"}, action : {"approve"}]
    \cup [op : {"feedback"}, status : {"approved", "revision_requested"},
          satisfied : {"true"}, reEditRequested : {"false"}, version : {0}]

InitDeadline == InitWith({DueProject}) /\ ~strictPopulate

DeadlineRequest(s) ==
    /\ Free(s) /\ nops < MaxConc
    /\ \E args \in DeadlineArgs : Arrive(s, args)
checkEditorDeadline(s) ==
    /\ Free(s)
    /\ Start(s, [op |-> "check"], 0, TRUE)
    /\ UNCHANGED nops
\* an hour passes
Tick ==
    /\ now < MaxNow
    /\ now' = now + 1
    /\ UNCHANGED <<db, users, last, slot, nops, keepAlive, strictPopulate>>

NextDeadline ==
    \/ Tick
    \/ \E s \in Slots :
           \/ DeadlineRequest(s) \/ checkEditorDeadline(s) \/ CheckSave(s)
           \/ AssignSteps(s) \/ UpdateSave(s) \/ UploadSteps(s) \/ ReviewSteps(s)
           \/ FeedbackSteps(s)

SpecDeadline == InitDeadline /\ [][NextDeadline]_vars

(***************************************************************************)
(* SpecCheck: checkEditorDeadline is called at any time while the clock    *)
(* advances and a request is served.  The project is assigned to e1 and    *)
(* due in an hour; e1 may have reported progress.                          *)
(***************************************************************************)
\* requests that arrive in a behaviour of SpecCheck
MaxDue == 1

\* e1 has started to work on the project that is due in an hour
InProgressDueProject ==
    After(Store(DueProject, Editors, 0, 0),
          << [op |-> "update", editor |-> "e1", status |-> "in_progress",
              hasProgress |-> FALSE, progress |-> 0] >>).p

CheckArgs ==
    {[op |-> "assign", editorId |-> "e2", isReassignment |-> "true",
      comments |-> FALSE, deadlineHours |-> 1]}
    \cup [op : {"update"}, editor : {"e1"}, status : {"in_progress"},
          hasProgress : {FALSE}, progress : {0}]
    \cup [op : {"upload"}, editor : {"e1"}, file : {TRUE}, driveOk : {TRUE},
          link : {TRUE}]

InitCheck == InitWith({DueProject, InProgressDueProject}) /\ ~strictPopulate

CheckRequest(s) ==
    /\ Free(s) /\ nops < MaxDue
    /\ \E args \in CheckArgs : Arrive(s, args)

NextCheck ==
    \/ Tick
    \/ \E s \in Slots :
           \/ CheckRequest(s) \/ checkEditorDeadline(s) \/ CheckSave(s)
           \/ AssignSteps(s) \/ UpdateSave(s) \/ UploadSteps(s)

SpecCheck == InitCheck /\ [][NextCheck]_vars

(***************************************************************************)
(* SpecLatch: the deadline has passed and checkEditorDeadline has set      *)
(* isEditorDeadlineExceeded; the lifecycle goes on from there (the clock   *)
(* stands at the hour of that call).                                       *)
(***************************************************************************)
\* the project that was due in an hour, after a call of checkEditorDeadline
\* at the hour MaxNow
OverdueProject ==
    After(Store(DueProject, Editors, MaxNow, 0), << [op |-> "check"] >>).p

LatchArgs ==
    {[op |-> "assign", editorId |-> "e1", isReassignment |-> "true",
      comments |-> FALSE, deadlineHours |-> 0],
     [op |-> "assign", editorId |-> "e2", isReassignment |-> "true",
      comments |-> FALSE, deadlineHours |-> 1]}
    \cup [op : {"update"}, editor : {"e1"}, status : {"in_progress", "completed"},
          hasProgress : {FALSE}, progress : {0}]
    \cup [op : {"upload"}, editor : {"e1"}, file : {TRUE}, driveOk : {TRUE},
          link : {TRUE}]
    \cup [op : {"review"}, action : ReviewActions]
    \cup [op : {"feedback"}, status : {"approved", "revision_requested"},
          satisfied : {"true"}, reEditRequested : {"false"}, version : {0}]

InitLatch == InitAt({OverdueProject}, MaxNow) /\ ~strictPopulate

LatchRequest(s) ==
    /\ Free(s) /\ nops < MaxConc
    /\ \E args \in LatchArgs : Arrive(s, args)

NextLatch ==
    \E s \in Slots :
        \/ LatchRequest(s)
        \/ AssignSteps(s) \/ UpdateSave(s) \/ UploadSteps(s) \/ ReviewSteps(s)
        \/ FeedbackSteps(s)

SpecLatch == InitLatch /\ [][NextLatch]_vars

(***************************************************************************)
(* SpecCreate: the project does not exist at first; a client upload        *)
(* creates it, and requests are served once it exists.                     *)
(***************************************************************************)
UploadMediaArgs ==
    [op : {"create"}, route : {"uploadMedia"}, clientType : {"none"},
     clientEmail : {"none", "invalid", "match"}, brandName : {""}, videoType : {""},
     files : BOOLEAN, voiceFiles : {FALSE}, links : {FALSE},
     folderOk : {TRUE}, filesOk : {TRUE}, voiceOk : {TRUE}]
\* the bodies validation looks at, the object store working
UploadEnhancedBodies ==
    [op : {"create"}, route : {"uploadEnhanced"},
     clientType : {"none", "existing"},
     clientEmail : {"none", "invalid", "isEmail", "match"},
     brandName : {""}, videoType : {""},
     files : BOOLEAN, voiceFiles : {FALSE}, links : BOOLEAN,
     folderOk : {TRUE}, filesOk : {TRUE}, voiceOk : {TRUE}]
    \cup [op : {"create"}, route : {"uploadEnhanced"},
          clientType : {"new"}, clientEmail : {"match"},
          brandName : {"", "Acme"}, videoType : {"Vlog", "YouTube Video", "Other"},
          files : {TRUE}, voiceFiles : {FALSE}, links : {FALSE},
          folderOk : {TRUE}, filesOk : {TRUE}, voiceOk : {TRUE}]
\* valid bodies with regular files, voice files or both, the object store
\* failing at any of its calls
UploadEnhancedFiles ==
    {args \in [op : {"create"}, route : {"uploadEnhanced"},
               clientType : {"existing"}, clientEmail : {"match"},
               brandName : {""}, videoType : {""},
               files : BOOLEAN, voiceFiles : BOOLEAN, links : {FALSE},
               folderOk : BOOLEAN, filesOk : BOOLEAN, voiceOk : BOOLEAN] :
        /\ args.files \/ args.voiceFiles
        /\ ~args.files => args.filesOk
        /\ ~args.voiceFiles => args.voiceOk}
UploadEnhancedArgs == UploadEnhancedBodies \cup UploadEnhancedFiles

InitCreate == InitWith({NoProject})

\* the project is not there and no upload is creating it
NotCreated == db = NoProject /\ Quiet

uploadMedia(s) ==
    /\ NotCreated /\ Free(s) /\ nops < MaxOps
    /\ \E args \in UploadMediaArgs : Arrive(s, args)
\* (the database may reject the first or the second save() of the handler)
uploadEnhanced(s) ==
    /\ NotCreated /\ Free(s) /\ nops < MaxOps
    /\ \E args \in UploadEnhancedArgs, k \in FailPoints : Start(s, args, k, TRUE)
    /\ nops' = nops + 1
\* a request for the project that exists
ExistingProject(s) ==
    /\ db # NoProject /\ Free(s) /\ nops < MaxOps
    /\ \E args \in Transitions("assign") \cup VoiceArgs : Arrive(s, args)

NextCreate ==
    \E s \in Slots :
        \/ uploadMedia(s) \/ uploadEnhanced(s) \/ CreateSteps(s)
        \/ ExistingProject(s) \/ AssignSteps(s) \/ VoiceSteps(s)

SpecCreate == InitCreate /\ [][NextCreate]_vars

(***************************************************************************)
(* SpecTimeline: every operation that writes the project, from its         *)
(* creation on: uploadEnhanced while the project does not exist, then the  *)
(* lifecycle transitions, the voice messages of the client and the admin,  *)
(* the Adobe link requests, the schema's updateStatus and                  *)
(* checkEditorDeadline, and the deletion of an editor.  The clock stands   *)
(* at the hour MaxNow, when the project that was due in an hour is overdue.*)
(***************************************************************************)
TimelineArgs ==
    [op : {"assign"}, editorId : {"e2"}, isReassignment : {"true"},
     comments : {FALSE}, deadlineHours : {0}]
    \cup [op : {"update"}, editor : {"e1"}, status : {"in_progress"},
          hasProgress : {FALSE}, progress : {0}]
    \cup [op : {"upload"}, editor : {"e1"}, file : {TRUE}, driveOk : {TRUE},
          link : {TRUE}]
    \cup [op : {"review"}, action : ReviewActions]
    \cup [op : {"feedback"}, status : {"approved", "revision_requested"},
          satisfied : {"true"}, reEditRequested : {"false"}, version : {0}]
    \cup [op : {"voice"}, commentType : {"feedback"}, file : {TRUE}, driveOk : {TRUE}]
    \cup [op : {"adobeLink"}, editor : {"e1"}, method : {"POST", "PUT"}, url : {"url"}]
    \cup [op : {"adminVoice"}, commentType : {"general"}, file : {TRUE}, path : {TRUE},
          driveOk : {TRUE}]
    \cup [op : {"updateStatus"}, newStatus : {"delivered"}, user : {"e1"}]
    \cup [op : {"delete"}, editorId : {"e1"}]
CreateArgs ==
    [op : {"create"}, route : {"uploadEnhanced"},
     clientType : {"new", "existing"}, clientEmail : {"match"},
     brandName : {"Acme"}, videoType : {"Other"},
     files : {TRUE}, voiceFiles : BOOLEAN, links : {FALSE},
     folderOk : {TRUE}, filesOk : {TRUE}, voiceOk : {TRUE}]

InitTimeline ==
    InitAt(Seeds \cup {NoProject, DueProject}, MaxNow) /\ ~strictPopulate

CreateRequest(s) ==
    /\ NotCreated /\ Free(s) /\ nops < MaxConc
    /\ \E args \in CreateArgs : Arrive(s, args)
TimelineRequest(s) ==
    /\ db # NoProject /\ Free(s) /\ nops < MaxConc
    /\ \E args \in TimelineArgs : Arrive(s, args)
DeadlineCheck(s) ==
    /\ db # NoProject /\ Free(s) /\ nops < MaxConc
    /\ Arrive(s, [op |-> "check"])

NextTimeline ==
    \E s \in Slots :
        \/ CreateRequest(s) \/ CreateSteps(s)
        \/ TimelineRequest(s)
        \/ DeadlineCheck(s) \/ CheckSave(s)
        \/ AssignSteps(s) \/ ReviewSteps(s) \/ UpdateSave(s) \/ UploadSteps(s)
        \/ FeedbackSteps(s) \/ VoiceSteps(s) \/ AdobeLinkSave(s)
        \/ AdminVoiceSteps(s) \/ UpdateStatusSave(s) \/ DeleteSteps(s)

SpecTimeline == InitTimeline /\ [][NextTimeline]_vars

(***************************************************************************)
(* SpecMethods: the methods of the schema applied to documents.  The       *)
(* project is assigned to e1 and its editedVersions is any array of up to  *)
(* MaxLen versions, in any order; getLatestVersion, getEditorDeadlineInfo  *)
(* and updateStatus are called, and e1 uploads further versions.           *)
(***************************************************************************)
VersionNumbers == 1..MaxLen
VersionArrays ==
    UNION {[1..n -> [version : VersionNumbers, status : {"pending"},
                     driveFileUrl : {TRUE}]] : n \in 0..MaxLen}

\* times in milliseconds around the hour
MsInputs == {0, 1, MsPerHour - 1, MsPerHour, MsPerHour + 1, 2 * MsPerHour}

UpdateStatusArgs ==
    [op : {"updateStatus"}, newStatus : {"delivered"}, user : {"e1"}]

InitMethods ==
    /\ InitWith({[AssignedProject EXCEPT !.editedVersions = vs] : vs \in VersionArrays})
    /\ ~strictPopulate

\* the methods that only read are called on the document the requests have
\* left (they change nothing, so a request after them finds what it would
\* have found without them)
MethodCalled == last.args.op \in {"getLatestVersion", "getEditorDeadlineInfo"}
CallGetLatestVersion ==
    /\ Quiet
    /\ Called([op |-> "getLatestVersion"], getLatestVersion(db))
\* (its deadline and its clock are inputs: the document plays no part)
CallGetEditorDeadlineInfo ==
    /\ Quiet /\ nops = 0
    /\ \E d \in {NoDate} \cup {Date(m) : m \in MsInputs}, t \in MsInputs :
           Called([op |-> "getEditorDeadlineInfo", deadline |-> d, now |-> t],
                  getEditorDeadlineInfo(d, t))
CallUpdateStatus(s) ==
    /\ Free(s) /\ nops < MaxConc /\ ~MethodCalled
    /\ \E args \in UpdateStatusArgs : Arrive(s, args)
UploadNextVersion(s) ==
    /\ Free(s) /\ nops < MaxConc /\ ~MethodCalled
    /\ \E args \in Transitions("upload") : Arrive(s, args)

NextMethods ==
    \/ CallGetLatestVersion
    \/ CallGetEditorDeadlineInfo
    \/ \E s \in Slots :
           \/ CallUpdateStatus(s) \/ UpdateStatusSave(s)
           \/ UploadNextVersion(s) \/ UploadSteps(s)

SpecMethods == InitMethods /\ [][NextMethods]_vars

(***************************************************************************)
(* SpecFail: the database may reject the first or the second save() of a   *)
(* request, and the notifier may throw.                                    *)
(***************************************************************************)
FailArgs ==
    [op : {"assign"}, editorId : {"e2"}, isReassignment : {"true"},
     comments : {FALSE}, deadlineHours : {0}]
    \cup [op : {"update"}, editor : {"e1"}, status : {"in_progress"},
          hasProgress : {FALSE}, progress : {0}]
    \cup [op : {"upload"}, editor : {"e1"}, file : {TRUE}, driveOk : {TRUE},
          link : {TRUE}]
    \cup [op : {"review"}, action : {"request_revision"}]
    \cup [op : {"feedback"}, status : {"revision_requested"},
          satisfied : {"true"}, reEditRequested : {"false"}, version : {0}]

\* the handler of the request sends a mail
Notifies(args) == args.op \in {"assign", "review", "feedback"}
\* the handler of the request saves twice with changes to send
SavesTwice(args) == args.op = "assign"

RequestMayFail(s) ==
    /\ Free(s) /\ nops < MaxConc
    /\ \E args \in FailArgs, k \in FailPoints, mail \in BOOLEAN :
           /\ k = 2 => SavesTwice(args)
           /\ ~mail => Notifies(args)
           /\ Start(s, args, k, mail)
    /\ nops' = nops + 1

NextFail ==
    \E s \in Slots :
        \/ RequestMayFail(s)
        \/ AssignSteps(s) \/ UpdateSave(s) \/ UploadSteps(s) \/ ReviewSteps(s)
        \/ FeedbackSteps(s)

InitFail == InitWith({AssignedProject, CompletedProject})

SpecFail == InitFail /\ [][NextFail]_vars

(***************************************************************************)
(* SpecLoop: a revision was requested (by the admin's review, or by the    *)
(* client's feedback on the approved project); the editors send status     *)
(* updates and versions, and the admin may assign the project again.       *)
(***************************************************************************)
RevisionRequestedProject ==
    After(Store(CompletedProject, Editors, 0, 0),
          << [op |-> "review", action |-> "request_revision"] >>).p
ClientRevisionProject ==
    After(Store(ApprovedProject, Editors, 0, 0),
          << [op |-> "feedback", status |-> "revision_requested",
              satisfied |-> "false", reEditRequested |-> "false", version |-> 0] >>).p

LoopArgs ==
    [op : {"update"}, editor : {"e1"},
     status : {"revision_in_progress", "completed", "delivered"},
     hasProgress : {FALSE}, progress : {0}]
    \cup [op : {"update"}, editor : {"e2"}, status : {"revision_in_progress"},
          hasProgress : {FALSE}, progress : {0}]
    \cup [op : {"upload"}, editor : {"e1"}, file : {TRUE}, driveOk : BOOLEAN,
          link : {TRUE}]
    \cup [op : {"assign"}, editorId : {"e2"}, isReassignment : {"true"},
          comments : {FALSE}, deadlineHours : {0}]

InitLoop == InitWith({RevisionRequestedProject, ClientRevisionProject})

LoopRequest(s) ==
    /\ Free(s) /\ nops < MaxConc
    /\ \E args \in LoopArgs : Arrive(s, args)

NextLoop ==
    \E s \in Slots :
        \/ LoopRequest(s)
        \/ UpdateSave(s) \/ UploadSteps(s) \/ AssignSteps(s)

SpecLoop == InitLoop /\ [][NextLoop]_vars

(***************************************************************************)
(* SpecRead: the client reads the project while requests are served.       *)
(* getProjectStatus, getDownloadLink and getProjectTimeline are one query  *)
(* of the database and its answer; downloadLatestVersion asks the object   *)
(* store for the URL after its query, while the requests go on.            *)
(***************************************************************************)
WriteArgs ==
    [op : {"assign"}, editorId : {"e2"}, isReassignment : {"true"},
     comments : {FALSE}, deadlineHours : {0}]
    \cup [op : {"update"}, editor : {"e1"}, status : {"in_progress", "completed"},
          hasProgress : {FALSE}, progress : {0}]
    \cup [op : {"upload"}, editor : {"e1"}, file : {TRUE}, driveOk : {TRUE},
          link : BOOLEAN]
    \cup [op : {"review"}, action : ReviewActions]
    \cup [op : {"feedback"}, status : {"approved"},
          satisfied : {"true"}, reEditRequested : {"false"}, version : {0}]
    \cup [op : {"feedback"}, status : {"revision_requested"},
          satisfied : {"false"}, reEditRequested : {"true"}, version : {0}]
    \cup [op : {"voice"}, commentType : {"feedback"}, file : {TRUE}, driveOk : {TRUE}]
    \cup [op : {"adobeLink"}, editor : {"e1"}, method : {"POST"}, url : {"url"}]
    \cup [op : {"adminVoice"}, commentType : {"general"}, file : {TRUE}, path : {TRUE},
          driveOk : {TRUE}]

\* a read changes nothing, so whatever follows it would have followed without
\* it: a behaviour ends with its read, taken in any state it passes through
ReadDone ==
    last.args.op \in {"getProjectStatus", "getDownloadLink",
                      "downloadLatestVersion", "getProjectTimeline"}
WriteRequest(s) ==
    /\ Free(s) /\ nops < MaxOps /\ ~ReadDone
    /\ \E args \in WriteArgs : Arrive(s, args)
ReadStatus ==
    /\ Called([op |-> "getProjectStatus"], getProjectStatus(db))
ReadDownloadLink ==
    /\ Called([op |-> "getDownloadLink"], getDownloadLink(db))
ReadDownload ==
    /\ slot[ReadSlot].pc = "idle" /\ ~ReadDone
    /\ \E driveOk \in BOOLEAN :
           Start(ReadSlot, [op |-> "downloadLatestVersion", driveOk |-> driveOk], 0, TRUE)
    /\ UNCHANGED nops
ReadDownloadUrl ==
    /\ slot[ReadSlot].pc = "getFileDownloadUrl" /\ ~ReadDone
    /\ Resume(ReadSlot)
ReadTimeline ==
    /\ Called([op |-> "getProjectTimeline"], getProjectTimeline(db))

NextRead ==
    \/ ReadStatus
    \/ ReadDownloadLink
    \/ ReadDownload
    \/ ReadDownloadUrl
    \/ ReadTimeline
    \/ \E s \in Slots :
           \/ WriteRequest(s)
           \/ ~ReadDone /\ AssignSteps(s)
           \/ ~ReadDone /\ UpdateSave(s)
           \/ ~ReadDone /\ UploadSteps(s)
           \/ ~ReadDone /\ ReviewSteps(s)
           \/ ~ReadDone /\ FeedbackSteps(s)
           \/ ~ReadDone /\ VoiceSteps(s)
           \/ ~ReadDone /\ AdobeLinkSave(s)
           \/ ~ReadDone /\ AdminVoiceSteps(s)

InitRead == Init /\ ~strictPopulate

SpecRead == InitRead /\ [][NextRead]_vars

(***************************************************************************)
(* SpecKeepAlive: start() and stop() are called in any order, and the      *)
(* timers fire.                                                            *)
(***************************************************************************)
\* calls of start() and stop() in a behaviour
MaxCalls == 4
\* pings counted in a behaviour
MaxPings == 3

InitKeepAlive == InitWith({NewProject})

KeepAliveStart ==
    /\ nops < MaxCalls
    /\ keepAlive' = start(keepAlive)
    /\ nops' = nops + 1
    /\ UNCHANGED <<db, users, last, slot, now, strictPopulate>>
KeepAliveStop ==
    /\ nops < MaxCalls
    /\ keepAlive' = stop(keepAlive)
    /\ nops' = nops + 1
    /\ UNCHANGED <<db, users, last, slot, now, strictPopulate>>
\* the timer of an initial ping fires (once)
InitialPingFires ==
    /\ keepAlive.timeouts > 0
    /\ keepAlive.pingCount < MaxPings
    /\ keepAlive' = ping([keepAlive EXCEPT !.timeouts = @ - 1])
    /\ UNCHANGED <<db, users, last, slot, nops, now, strictPopulate>>
\* a periodic timer fires
PeriodicPingFires ==
    /\ keepAlive.intervals > 0
    /\ keepAlive.pingCount < MaxPings
    /\ keepAlive' = ping(keepAlive)
    /\ UNCHANGED <<db, users, last, slot, nops, now, strictPopulate>>
\* the request of a ping comes to its end, whether or not the service is
\* still active
PingCallback ==
    /\ keepAlive.pending > 0
    /\ \E outcome \in {"end", "error", "timeout", "stalled"},
          kept \in 0..MaxErrorsKept :
           keepAlive' = ping_callback(keepAlive, outcome, kept)
    /\ UNCHANGED <<db, users, last, slot, nops, now, strictPopulate>>

NextKeepAlive ==
    \/ KeepAliveStart
    \/ KeepAliveStop
    \/ InitialPingFires
    \/ PeriodicPingFires
    \/ PingCallback

SpecKeepAlive == InitKeepAlive /\ [][NextKeepAlive]_vars

(***************************************************************************)
(* Properties of the requests.  last holds the request answered last: its  *)
(* arguments and its response, the project and the accounts as they were   *)
(* persisted when it arrived and read them (before, usersBefore), the      *)
(* number of its writes to the persisted project (writes), the persisted   *)
(* project just before its first write (pre) and just after its last one   *)
(* (post).  What a request leaves unchanged it does not write; what it     *)
(* sets or appends is in post, against pre.                                *)
(***************************************************************************)
\* new is old with n elements appended
IsAppend(new, old, n) ==
    /\ Len(new) = Len(old) + n
    /\ SubSeq(new, 1, Len(old)) = old

LastEntry(p) == p.timeline[Len(p.timeline)]

\* the step is one of the handler in slot s
StepOf(s) == slot'[s] # slot[s]

\* C1: reviewProject (approve, request_revision or reassign) on a project whose
\* status is not completed fails with the invalid-state error and leaves status,
\* adminComments and timeline as they were: it writes nothing.
C1_ReviewRejectedUnlessCompleted ==
    (/\ last.args.op = "review"
     /\ last.args.action \in {"approve", "request_revision", "reassign"}
     /\ last.before.status # "completed")
    => /\ last.result = "InvalidState"
       /\ last.writes = 0

C1_Witness ==
    /\ last.args.op = "review"
    /\ last.args.action = "approve"
    /\ last.before.status = "approved"
    /\ last.result = "InvalidState"
    /\ last.writes = 0

\* C2: reviewProject on a completed project: approve gives status approved,
\* request_revision gives revision_requested, reassign leaves the status as it
\* is (completed when no other request has written); each appends exactly one
\* adminComment and exactly one timeline entry, in one write.  The response is
\* 200, or 500 where the re-read for the response throws.
C2_ReviewOfCompleted ==
    (/\ last.args.op = "review"
     /\ last.args.action \in {"approve", "request_revision", "reassign"}
     /\ last.before.status = "completed")
    => /\ last.result = IF strictPopulate THEN "ServerError" ELSE "ok"
       /\ last.writes = 1
       /\ last.args.action = "approve" => last.post.status = "approved"
       /\ last.args.action = "request_revision"
          => last.post.status = "revision_requested"
       /\ last.args.action = "reassign"
          => /\ last.post.status = last.pre.status
             /\ last.pre = last.before => last.post.status = "completed"
       /\ IsAppend(last.post.adminComments, last.pre.adminComments, 1)
       /\ IsAppend(last.post.timeline, last.pre.timeline, 1)

C2_Witness ==
    /\ last.args.op = "review"
    /\ last.args.action = "reassign"
    /\ last.before.status = "completed"
    /\ last.writes = 1
    /\ last.post.status = "completed"
    /\ Len(last.post.adminComments) = Len(last.pre.adminComments) + 1

\* C3: an editor status update is accepted only when the current status is
\* assigned, reassigned, in_progress or revision_in_progress; from any other
\* status it is rejected and status, progress and timeline are unchanged.
C3_UpdateOnlyFromWorkingStatus ==
    (/\ last.args.op = "update"
     /\ last.before.status \notin
            {"assigned", "reassigned", "in_progress", "revision_in_progress"})
    => /\ last.result # "ok"
       /\ last.writes = 0

\* a request that passes the checks made before the project is looked up
WellFormed(args) ==
    /\ args.op = "update" => updateStatusValidation(args)
    /\ args.op = "upload" => args.file

\* C4: updateProjectStatus and uploadEditedVersion by an editor who is not the
\* project's assignedEditor (also when there is none) leave status, progress,
\* editedVersions and timeline unchanged (they write nothing), and answer
\* NotFound (a request that is itself malformed is turned away before the lookup).
C4_OtherEditorNotFound ==
    (/\ last.args.op \in {"update", "upload"}
     /\ last.before.assignedEditor # last.args.editor)
    => /\ last.result # "ok"
       /\ WellFormed(last.args) => last.result = "NotFound"
       /\ last.writes = 0

C4_Witness ==
    /\ last.args.op = "upload"
    /\ last.args.file
    /\ last.args.driveOk
    /\ last.before.assignedEditor = Null
    /\ last.result = "NotFound"
    /\ last.writes = 0

\* C5: an upload by the assigned editor whose file reaches the object store
\* succeeds from any status: status becomes completed, progress 100, exactly one
\* Version with approval state pending and exactly one timeline entry are appended.
C5_UploadCompletes ==
    /\ (/\ last.args.op = "upload"
        /\ last.before.assignedEditor = last.args.editor
        /\ last.args.file
        /\ last.args.driveOk) => last.result = "ok"
    /\ (last.args.op = "upload" /\ last.result = "ok")
       => /\ last.before.assignedEditor = last.args.editor
          /\ last.post.status = "completed"
          /\ last.post.progress = 100
          /\ IsAppend(last.post.editedVersions, last.pre.editedVersions, 1)
          /\ last.post.editedVersions[Len(last.post.editedVersions)].status = "pending"
          /\ IsAppend(last.post.timeline, last.pre.timeline, 1)

\* C6: when the object-store upload fails, uploadEditedVersion reports the
\* failure and editedVersions, status, progress and timeline are unchanged (it
\* writes nothing); no step other than one of an upload whose storage upload
\* succeeded records a Version.
C6_NoVersionWithoutStoredFile ==
    /\ []((/\ last.args.op = "upload"
           /\ last.args.file
           /\ last.before.assignedEditor = last.args.editor
           /\ ~last.args.driveOk)
          => /\ last.result = "DependencyFailure"
             /\ last.writes = 0)
    /\ [][db'.editedVersions # db.editedVersions
          => \E s \in Slots : /\ StepOf(s)
                              /\ slot[s].args.op = "upload"
                              /\ slot[s].args.driveOk]_vars

C6_Witness ==
    /\ last.args.op = "upload"
    /\ last.args.file
    /\ ~last.args.driveOk
    /\ last.before.assignedEditor = last.args.editor
    /\ last.before.status = "assigned"
    /\ last.result = "DependencyFailure"
    /\ last.writes = 0

\* C7: in every reachable state the version numbers in editedVersions are
\* pairwise distinct and strictly increasing in insertion order, for every
\* interleaving of uploads.
C7_VersionNumbersIncreasing ==
    \A i, j \in 1..Len(db.editedVersions) :
        i < j => db.editedVersions[i].version < db.editedVersions[j].version

\* C8: submitFeedback accepted on an approved or completed project: {approved,
\* satisfied true} gives delivered; {revision_requested, reEditRequested true}
\* gives client_reedit; {revision_requested, reEditRequested false or absent}
\* gives revision_requested; exactly one Feedback and one timeline entry are
\* appended.  A flag of the payload is true or false as the Feedback stores it.
C8_FeedbackTransitions ==
    /\ (/\ last.args.op = "feedback"
        /\ last.args.status \in {"approved", "revision_requested"}
        /\ last.before.status \in {"approved", "completed"}) => last.result = "ok"
    /\ (last.args.op = "feedback" /\ last.result = "ok")
       => /\ last.before.status \in {"approved", "completed"}
          /\ (last.args.status = "approved"
              /\ CastBoolean(last.args.satisfied) = "true")
             => last.post.status = "delivered"
          /\ (last.args.status = "revision_requested"
              /\ CastBoolean(last.args.reEditRequested) = "true")
             => last.post.status = "client_reedit"
          /\ (last.args.status = "revision_requested"
              /\ CastBoolean(last.args.reEditRequested) \in {"false", "undefined"})
             => last.post.status = "revision_requested"
          /\ IsAppend(last.post.clientFeedback, last.pre.clientFeedback, 1)
          /\ IsAppend(last.post.timeline, last.pre.timeline, 1)

\* C9: a Feedback entry is appended to clientFeedback only by a client action
\* on a project whose status is approved or completed; submitFeedback and the
\* client voice message with commentType feedback leave clientFeedback unchanged
\* in every other status.
C9_FeedbackOnlyWhenReady ==
    [][db'.clientFeedback # db.clientFeedback
       => \E s \in Slots : /\ StepOf(s)
                           /\ slot[s].args.op \in {"feedback", "voice"}
                           /\ slot[s].before.status \in {"approved", "completed"}]_vars

\* C10: assignProjectToEditor (to an existing editor) is accepted from every
\* status and sets assignedEditor; the status is reassigned exactly when the
\* isReassignment flag is set and the previously assigned editor exists and is
\* another one, and assigned otherwise; the timeline entry's action says
\* "reassigned" exactly when the status is reassigned.  The flag is set when
\* the body's isReassignment stands for true.
C10_AssignOrReassign ==
    (last.args.op = "assign" /\ last.args.editorId \in last.usersBefore)
    => /\ last.result = "ok"
       /\ last.post.assignedEditor = last.args.editorId
       /\ last.post.status \in {"assigned", "reassigned"}
       /\ last.post.status = "reassigned"
          <=> /\ CastBoolean(last.args.isReassignment) = "true"
              /\ last.before.assignedEditor \in last.usersBefore
              /\ last.before.assignedEditor # last.args.editorId
       /\ LastEntry(last.post).action[1] = "Project reassigned to "
          <=> last.post.status = "reassigned"
       /\ LastEntry(last.post).action[1] \in
              {"Project reassigned to ", "Project assigned to "}

\* C11: in every state in which the project has been assigned, editorDeadline
\* is assignedDate plus editorDeadlineHours hours; a successful
\* assignProjectToEditor sets assignedDate to now, editorDeadlineHours to the
\* requested hours (24 when none is given), editorDeadline to now plus those
\* hours and isEditorDeadlineExceeded to false.
C11_DeadlineFromAssignment ==
    /\ db.assignedEditor # Null
       => /\ db.assignedDate # NoDate
          /\ db.editorDeadline = Date(Time(db.assignedDate) + db.editorDeadlineHours)
    /\ (last.args.op = "assign" /\ last.result = "ok")
       => /\ last.post.assignedDate = Date(last.at)
          /\ last.post.editorDeadlineHours =
                 (IF last.args.deadlineHours = 0 THEN 24 ELSE last.args.deadlineHours)
          /\ last.post.editorDeadline = Date(last.at + last.post.editorDeadlineHours)
          /\ ~last.post.isEditorDeadlineExceeded

\* C12: every persisted write that changes the status also appends exactly one
\* timeline entry: no request can see the new status without its entry.
C12_StatusChangeWithTimelineEntry ==
    [][db'.status # db.status => IsAppend(db'.timeline, db.timeline, 1)]_vars

\* C13: a transition whose save is rejected by the database persists nothing:
\* no field mutation and no timeline entry.  (A 500 of these requests comes
\* from a rejected save, but for the review whose re-read throws.)
C13_AllOrNothing ==
    (/\ last.result = "ServerError"
     /\ ~(last.args.op = "review" /\ strictPopulate))
    => last.writes = 0

\* a is a prefix of b
IsPrefix(a, b) == Len(a) <= Len(b) /\ SubSeq(b, 1, Len(a)) = a

\* C14: the timeline is append-only: in every step of every operation, under
\* every interleaving, the persisted timeline before the step is a prefix of
\* the one after it.
C14_TimelineAppendOnly ==
    [][IsPrefix(db.timeline, db'.timeline)]_vars

\* the admin's voice message has pushed its timeline entry and saved it after
\* an Adobe link request, which arrived after the voice message had read the
\* project, had pushed and saved its own
C14_Witness ==
    /\ last.args.op = "adminVoice"
    /\ last.result = "ok"
    /\ Len(last.pre.timeline) = Len(last.before.timeline) + 1
    /\ IsPrefix(last.before.timeline, last.pre.timeline)
    /\ LastEntry(last.pre).action = AdobeAction("POST")
    /\ IsAppend(last.post.timeline, last.pre.timeline, 1)
    /\ LastEntry(last.post).action = <<"Admin voice message added">>
    /\ db.timeline = last.post.timeline

\* C15: no overlapping request loses an update: the save of an admin review
\* changes the status only when the persisted status is completed, the save of
\* a client feedback only when it is approved or completed.
C15_NoLostUpdate ==
    [][\A s \in Slots :
           (/\ slot[s].pc \in {"save", "save2"}
            /\ StepOf(s)
            /\ db'.status # db.status)
           => /\ slot[s].args.op = "review" => db.status = "completed"
              /\ slot[s].args.op = "feedback" => db.status \in {"approved", "completed"}
      ]_vars

\* the status a timeline entry of an assignment or a status update records
StatusOfEntry(e) ==
    CASE e.action[1] = "Project reassigned to " -> "reassigned"
      [] e.action[1] = "Project assigned to " -> "assigned"
      [] e.action[1] = "Status updated from " -> e.action[4]
      [] OTHER -> "none"

\* C16: when an assignProjectToEditor and an updateProjectStatus that
\* overlapped in any way have both finished, the status is the one recorded by
\* the last timeline entry.
C16_StatusMatchesTimeline ==
    (/\ nops = 2
     /\ \A s \in Slots : slot[s].pc = "done" /\ slot[s].result = "ok"
     /\ {slot[s].args.op : s \in Slots} = {"assign", "update"})
    => db.status = StatusOfEntry(LastEntry(db))

\* C17: progress is always clamped: a status update by the assigned editor
\* with progress above 100 is accepted and stores 100, one with progress below
\* 0 is accepted and stores 0; progress is in 0..100 in every state.
C17_ProgressClamped ==
    /\ db.progress \in 0..100
    /\ (/\ last.args.op = "update"
        /\ last.args.hasProgress
        /\ last.args.status \in validStatuses
        /\ last.before.assignedEditor = last.args.editor)
       => /\ last.result = "ok"
          /\ last.args.progress > 100 => last.post.progress = 100
          /\ last.args.progress < 0 => last.post.progress = 0

\* C18: checkEditorDeadline returns true exactly when the time of the call is
\* strictly after editorDeadline and the status is assigned, reassigned or
\* in_progress; when it returns true isEditorDeadlineExceeded is true after it.
C18_CheckEditorDeadline ==
    last.args.op = "check"
    => /\ last.result = "true"
          <=> /\ last.before.editorDeadline # NoDate
              /\ last.at > Time(last.before.editorDeadline)
              /\ last.before.status \in {"assigned", "reassigned", "in_progress"}
       /\ last.result \in {"true", "false"}
       /\ last.result = "true" => last.post.isEditorDeadlineExceeded

C18_Witness ==
    /\ last.args.op = "check"
    /\ last.result = "true"
    /\ last.before.status = "reassigned"
    /\ last.at = Time(last.before.editorDeadline) + 1
    /\ ~last.before.isEditorDeadlineExceeded
    /\ last.writes = 1
    /\ last.post.isEditorDeadlineExceeded

C20_CheckStaysTrue ==
    (last.args.op = "check" /\ last.before.isEditorDeadlineExceeded)
    => last.result = "true"

\* C23: a notifier failure during assign, review or client feedback neither
\* blocks nor rolls back the transition: the step in which the notifier throws
\* leaves the persisted project as it is and the handler where the same step
\* with a working notifier leaves it, and a request that got as far as its
\* mail reports success (a review: where the re-read for its response does not
\* throw) with its write persisted.
C23_NotifierFailureSwallowed ==
    [][/\ \A s \in Slots :
              (slot[s].pc = "email" /\ ~slot[s].mail /\ StepOf(s))
              => LET r == Step(slot[s], [StoreOf(s) EXCEPT !.mail = TRUE])
                 IN /\ db' = db
                    /\ r.S.p = db
                    /\ slot'[s] = Finished(r.l)
       /\ (/\ last'.args.op \in {"assign", "review", "feedback"}
           /\ ~last'.mail
           /\ last'.fail = 0
           /\ \E i \in DOMAIN last'.log : last'.log[i] = "email")
          => /\ last'.result =
                    IF last'.args.op = "review" /\ strictPopulate
                    THEN "ServerError" ELSE "ok"
             /\ last'.writes >= 1
             /\ last'.post # last'.pre
      ]_vars

C23_Witness ==
    /\ last.args.op = "review"
    /\ last.args.action = "request_revision"
    /\ ~last.mail
    /\ last.fail = 0
    /\ "email" \in {last.log[i] : i \in 1..Len(last.log)}
    /\ last.result = "ok"
    /\ last.post.status = "revision_requested"
    /\ IsAppend(last.post.timeline, last.pre.timeline, 1)

\* C24: in every transition the calls to collaborators other than the Version
\* upload (granting storage access, sending notifications) come after the
\* write that persists the transition, and never in a request that persists
\* nothing.
C24_CollaboratorsAfterCommit ==
    \A i \in 1..Len(last.log) :
        last.log[i] \in {"grantEditorAccess", "email"}
        => \E j \in 1..(i - 1) : last.log[j] = "save"

\* C21: getLatestVersion returns the Version with the greatest number whatever
\* the order of editedVersions (stored order 3, 1, 2 gives 3), and none when
\* editedVersions is empty.
C21_LatestIsMaximum ==
    last.args.op = "getLatestVersion"
    => LET vs == last.before.editedVersions
       IN /\ Len(vs) = 0 => last.result = NoVersion
          /\ Len(vs) > 0
             => /\ \E i \in 1..Len(vs) : vs[i] = last.result
                /\ \A i \in 1..Len(vs) : vs[i].version <= last.result.version

C21_Witness ==
    /\ last.args.op = "getLatestVersion"
    /\ Len(last.before.editedVersions) = 3
    /\ last.before.editedVersions[1].version = 3
    /\ last.before.editedVersions[2].version = 1
    /\ last.before.editedVersions[3].version = 2
    /\ last.result.version = 3

\* the greatest version number in an array of versions, 0 when it is empty
RECURSIVE MaxVersion(_)
MaxVersion(vs) ==
    IF vs = <<>> THEN 0 ELSE Max(Head(vs).version, MaxVersion(Tail(vs)))

\* the versions are numbered 1, 2, ..., k in array order
Counted(vs) == \A i \in 1..Len(vs) : vs[i].version = i

\* C22: an uploaded Version gets the greatest number among the Versions the
\* handler read (0 when there is none) plus 1; uploads one after the other (no
\* Version is recorded between the read and the write of an upload) on a
\* project without versions give 1, 2, ..., k in upload order, and
\* getLatestVersion then returns number k.
C22_NextVersionNumber ==
    (last.args.op = "upload" /\ last.result = "ok")
    => /\ IsAppend(last.post.editedVersions, last.pre.editedVersions, 1)
       /\ last.post.editedVersions[Len(last.post.editedVersions)].version =
              MaxVersion(last.before.editedVersions) + 1
       /\ (/\ Counted(last.before.editedVersions)
           /\ last.pre.editedVersions = last.before.editedVersions)
          => /\ Counted(last.post.editedVersions)
             /\ getLatestVersion(last.post).version = Len(last.post.editedVersions)

\* uploads, one after the other, on a project without versions
C22_Witness ==
    /\ last.args.op = "upload"
    /\ last.result = "ok"
    /\ last.pre.editedVersions = last.before.editedVersions
    /\ Len(last.post.editedVersions) = MaxConc
    /\ Counted(last.post.editedVersions)
    /\ getLatestVersion(last.post).version = MaxConc
    /\ Len(last.post.timeline) = Len(AssignedProject.timeline) + MaxConc
    /\ \A i \in 1..MaxConc :
           last.post.timeline[Len(AssignedProject.timeline) + i].action
               = UploadAction(i)

\* C26: getEditorDeadlineInfo reports hoursLeft = max(0, ceil((editorDeadline -
\* now) / 1 hour)): never negative, 0 when now is at or after the deadline, and
\* otherwise the least number of whole hours that covers the time left (at
\* least 1).
C26_HoursLeft ==
    (last.args.op = "getEditorDeadlineInfo" /\ last.args.deadline # NoDate)
    => LET h == last.result.hoursLeft
           left == Time(last.args.deadline) - last.args.now
       IN /\ h >= 0
          /\ left <= 0 => h = 0
          /\ left > 0 => /\ h >= 1
                         /\ (h - 1) * MsPerHour < left
                         /\ left <= h * MsPerHour

C26_Witness ==
    /\ last.args.op = "getEditorDeadlineInfo"
    /\ last.args.deadline = Date(MsPerHour + 1)
    /\ last.args.now = 0
    /\ last.result.hoursLeft = 2

\* C25: in every state assignedEditor is null exactly when the status is
\* uploaded.
C25_EditorIffNotUploaded ==
    db.assignedEditor = Null <=> db.status = "uploaded"

\* the project has left uploaded and its editor's account has been deleted:
\* the reference stays
C25_Witness ==
    /\ last.args.op = "delete"
    /\ last.result = "ok"
    /\ db.status = "approved"
    /\ db.assignedEditor = last.args.editorId
    /\ db.assignedEditor \notin users

\* C27: progress never decreases in a step that leaves the status as it was
\* and is not a step of a (re)assignment.
C27_ProgressMonotonic ==
    [][(/\ db'.status = db.status
        /\ \A s \in Slots : StepOf(s) => slot[s].args.op # "assign")
       => db'.progress >= db.progress]_vars

\* C28: the version of every Feedback entry in clientFeedback is the number of
\* a Version in editedVersions.
C28_FeedbackVersionExists ==
    \A i \in 1..Len(db.clientFeedback) :
        \E j \in 1..Len(db.editedVersions) :
            db.editedVersions[j].version = db.clientFeedback[i].version

\* C30: an accepted updateProjectStatus sets the status to the requested
\* target, one of assigned, in_progress, completed, revision_in_progress, and
\* appends exactly one timeline entry naming the old and the new status (also
\* when they are equal); a request with any other target is rejected and
\* leaves status, progress and timeline as they were.
C30_UpdateSetsTarget ==
    /\ (last.args.op = "update" /\ last.result = "ok")
       => /\ last.args.status \in
                 {"assigned", "in_progress", "completed", "revision_in_progress"}
          /\ last.post.status = last.args.status
          /\ IsAppend(last.post.timeline, last.pre.timeline, 1)
          /\ LastEntry(last.post).action =
                 <<"Status updated from ", last.before.status, " to ", last.args.status>>
    /\ (/\ last.args.op = "update"
        /\ last.args.status \notin
               {"assigned", "in_progress", "completed", "revision_in_progress"})
       => /\ last.result # "ok"
          /\ last.writes = 0

\* C29: project creation by client upload is all-or-nothing: a created project
\* has status uploaded and a timeline whose first entry records the creation;
\* when the folder creation or a file upload fails, no project record is
\* persisted.
C29_CreationAllOrNothing ==
    last.args.op = "create"
    => \/ /\ last.result = "ok"
          /\ last.post.status = "uploaded"
          /\ Len(last.post.timeline) >= 1
          /\ last.post.timeline[1].action
                 = CreateAction(last.args.route, last.args.clientType,
                                last.args.brandName, last.args.videoType)
       \/ /\ last.result # "ok"
          /\ last.writes = 0

\* C31: the revision loop can be walked: on a project in revision_requested the
\* assigned editor's update to revision_in_progress is accepted and sets that
\* status, and from revision_in_progress the same editor's update to completed,
\* or upload of a version, is accepted and sets completed; no reassignment is
\* needed in between (the update does not write assignedEditor).
C31_RevisionLoop ==
    /\ (/\ last.args.op = "update"
        /\ last.args.editor = last.before.assignedEditor
        /\ last.before.status = "revision_requested"
        /\ last.args.status = "revision_in_progress")
       => (/\ last.result = "ok"
           /\ last.post.status = "revision_in_progress"
           /\ last.post.assignedEditor = last.pre.assignedEditor)
    /\ (/\ last.args.op = "update"
        /\ last.args.editor = last.before.assignedEditor
        /\ last.before.status = "revision_in_progress"
        /\ last.args.status = "completed")
       => (last.result = "ok" /\ last.post.status = "completed")
    /\ (/\ last.args.op = "upload"
        /\ last.args.editor = last.before.assignedEditor
        /\ last.before.status = "revision_in_progress"
        /\ last.args.driveOk)
       => (last.result = "ok" /\ last.post.status = "completed")

\* the loop was walked: revision_requested, revision_in_progress, completed, the
\* two editor updates being the last two timeline entries
C31_Witness ==
    /\ last.args.op = "update"
    /\ last.result = "ok"
    /\ last.before.status = "revision_in_progress"
    /\ last.post.status = "completed"
    /\ Len(last.post.timeline) >= 2
    /\ last.post.timeline[Len(last.post.timeline) - 1].action =
           <<"Status updated from ", "revision_requested", " to ", "revision_in_progress">>
    /\ last.post.timeline[Len(last.post.timeline)].action =
           <<"Status updated from ", "revision_in_progress", " to ", "completed">>

\* C32: an editor's status update or version upload never takes effect after the
\* project was assigned to another editor: when the request's write comes while
\* the persisted assignedEditor is no longer the caller, it changes neither the
\* status, the progress, the editedVersions nor the timeline.
C32_NoWriteAfterReassignment ==
    [][\A s \in Slots :
          (/\ slot[s].args.op \in {"update", "upload"}
           /\ slot[s].pc = "save"
           /\ slot'[s].pc = "done"
           /\ db.assignedEditor # slot[s].args.editor)
          => /\ db'.status = db.status
             /\ db'.progress = db.progress
             /\ db'.editedVersions = db.editedVersions
             /\ db'.timeline = db.timeline]_vars

\* the entries of the actions the client is to see: creation, assignment, editor
\* status update, version upload, admin approval, client approval, client
\* revision request
ShownToClient(entry) ==
    \/ entry.action[1] \in {"New client project created for ",
                            "Existing client project created",
                            "Project assigned to ", "Project reassigned to ",
                            "Status updated from ", "Uploaded edited version v"}
    \/ entry.action \in {ReviewAction("approve"), FeedbackAction("approve"),
                         FeedbackAction("revision")}
\* the entries the client is not to see: admin revision request, the review's
\* reassign flag, voice messages, Adobe link changes
HiddenFromClient(entry) ==
    entry.action \in {ReviewAction("request_revision"), ReviewAction("reassign"),
                      <<"Voice message added">>, <<"Admin voice message added">>,
                      AdobeAction("POST"), AdobeAction("PUT")}

\* C33: getProjectTimeline returns, in their order, the entries of creation,
\* assignment, editor status updates, version uploads, admin approval, client
\* approval and client revision requests, and none of an admin revision request,
\* a review reassign flag, a voice message or an Adobe link change.
C33_ClientTimeline ==
    last.args.op = "getProjectTimeline"
    => LET shown == {last.result[i] : i \in DOMAIN last.result}
           timeline == last.before.timeline
       IN /\ \A i \in DOMAIN timeline :
                 /\ ShownToClient(timeline[i]) => timeline[i] \in shown
                 /\ HiddenFromClient(timeline[i]) => timeline[i] \notin shown
          /\ last.result = SelectSeq(timeline, LAMBDA e : e \in shown)

\* C34: no client read (getDownloadLink, downloadLatestVersion, getProjectStatus)
\* answers with a Version's file reference for a project that the admin never
\* approved.
EverApproved(p) ==
    \E i \in DOMAIN p.timeline : p.timeline[i].action = ReviewAction("approve")
C34_FileOnlyAfterApproval ==
    (/\ last.args.op \in {"getDownloadLink", "downloadLatestVersion", "getProjectStatus"}
     /\ last.result.file)
    => EverApproved(last.before)

\* C35: an editor with an active assignment is never deleted: whenever the
\* project's status is assigned, reassigned, in_progress or revision_in_progress,
\* its assignedEditor is an account that exists.
C35_ActiveEditorExists ==
    db.status \in {"assigned", "reassigned", "in_progress", "revision_in_progress"}
    => db.assignedEditor \in users

\* C36: whenever the status is completed, approved or delivered, editedVersions
\* holds at least one Version.
C36_CompletedHasVersion ==
    db.status \in {"completed", "approved", "delivered"}
    => Len(db.editedVersions) >= 1

\* C37: no operation sets the status to under_review: the persisted status is
\* never under_review.
C37_NeverUnderReview ==
    db.status \in Statuses \ {"under_review"}

\* the assigned editor has asked for the status under_review and was turned
\* away with nothing written
C37_Witness ==
    /\ last.args.op = "update"
    /\ last.args.status = "under_review"
    /\ last.args.editor = last.before.assignedEditor
    /\ last.result = "ValidationError"
    /\ last.writes = 0
    /\ db.status # "under_review"

\* C38: an existing Version is never changed: every step leaves the Versions
\* that exist as they are (editedVersions only grows at its end), and the
\* approval state of every Version is pending, also after the admin's review.
C38_VersionsImmutable ==
    [][/\ IsPrefix(db.editedVersions, db'.editedVersions)
       /\ \A i \in DOMAIN db'.editedVersions : db'.editedVersions[i].status = "pending"]_vars

\* the admin approved a project that has a Version
C38_Witness ==
    /\ last.args.op = "review"
    /\ last.args.action = "approve"
    /\ last.result = "ok"
    /\ Len(last.post.editedVersions) >= 1
    /\ last.post.editedVersions = last.before.editedVersions
    /\ last.post.status = "approved"

\* C39: an accepted submitFeedback sets the status to delivered, client_reedit
\* or revision_requested; to delivered exactly when the payload has status
\* approved and satisfied true; a payload with status approved and satisfied
\* false or absent stores a Feedback with status approved and sets client_reedit
\* (reEditRequested true) or revision_requested (otherwise).  A flag of the
\* payload is true or false as the Feedback stores it.
C39_FeedbackStatus ==
    (last.args.op = "feedback" /\ last.result = "ok")
    => /\ last.args.status \in {"approved", "revision_requested"}
       /\ last.post.status \in {"delivered", "client_reedit", "revision_requested"}
       /\ last.post.status = "delivered"
          <=> /\ last.args.status = "approved"
              /\ CastBoolean(last.args.satisfied) = "true"
       /\ (last.args.status = "approved" /\ CastBoolean(last.args.satisfied) # "true")
          => /\ IsAppend(last.post.clientFeedback, last.pre.clientFeedback, 1)
             /\ last.post.clientFeedback[Len(last.post.clientFeedback)].status = "approved"
             /\ last.post.status = IF CastBoolean(last.args.reEditRequested) = "true"
                                   THEN "client_reedit" ELSE "revision_requested"

\* C40: KeepAliveService keeps at most one periodic timer and at most one
\* pending initial-ping timer, whatever the sequence of start() and stop() calls.
C40_KeepAliveTimers ==
    /\ keepAlive.intervals <= 1
    /\ keepAlive.timeouts <= 1

====
